---- MODULE Spec2Model ----
(***************************************************************************)
(* StoryForge event bus (storyforge/events/bus.py, events/types.py,        *)
(* events/middleware.py) as a state machine.                               *)
(*                                                                         *)
(* One asyncio event loop runs the client tasks of Calls.  A task is a     *)
(* stack of publish frames (publish re-enters itself for every response a  *)
(* handler returns) under an optional request frame.  A step of the model  *)
(* is a piece of code between two awaits that can suspend: one middleware  *)
(* call, the synchronous part of publish after the middleware chain, the   *)
(* completion of one handler, the loop over the gathered results, the end  *)
(* of wait_for.  A handler that never returns is a handler whose           *)
(* completion step is never taken.  Time is the one instant per request    *)
(* at which its timeout, counted from the call, has run out; the timer of  *)
(* wait_for, armed at or after the call, can fire from then on.            *)
(*                                                                         *)
(* The chapter pipeline (storyforge/pipeline/chapter.py) is a second state *)
(* machine over the same variables (PipelineSpec): generate_chapter with   *)
(* its stages, where a request on the bus is abstracted to its outcome     *)
(* (a reply, or an exception raised to the stage).  The resolution of the  *)
(* names of a scene plan to registered character agents is a third         *)
(* (ResolveSpec), over names as sequences of characters.  VisualPipeline   *)
(* .run (pipeline/visual.py) is a fourth (VisualSpec); the rate limiter of *)
(* the LLM backends (llm/rate_limiter.py) with its acquiring tasks and a   *)
(* clock in ticks a fifth (LimiterSpec); the emotional state machine of a  *)
(* character (agents/character/emotional_state.py) a sixth (EmotionSpec).  *)
(* LogSpec is the bus together with clear_log; RunSpec the requests of     *)
(* one run of generate_chapter and their replies as events in the log of   *)
(* the bus; TrackerSpec the PipelineTracker of pipeline/stages.py.         *)
(***************************************************************************)
EXTENDS Integers, Sequences, FiniteSets, TLC

\* ---- bounds ------------------------------------------------------------
MaxEvents == 3        \* events constructed in one run (ids 1..MaxEvents)
MaxMiddleware == 2    \* length of the middleware chain
MaxSubscribers == 2   \* calls of subscribe during bootstrap
MaxScenes == 2        \* scenes of a chapter outline
MaxParticipants == 2  \* resolved participants of a scene
MaxRounds == 2        \* largest max_revision_rounds
MaxIssues == 2        \* issues one check reports
MaxNameLen == 3       \* characters of a name in a scene plan
MaxAgentNameLen == 2  \* characters of a registered name
MaxRegistered == 2    \* registered character agents
MaxPresent == 2       \* names in characters_present
MaxSummary == 1       \* scene texts a chapter summary keeps
MaxLostSaves == 1     \* failed calls of save_intermediate in one run
MaxVisualScenes == 3  \* scenes ExpansionAgent.expand returns
MaxRate == 2          \* largest requests_per_minute and tokens_per_minute
TicksPerMinute == 2   \* readings of time.monotonic() in a minute
MaxClock == 4         \* last reading of time.monotonic(), in ticks
MaxTimeout == 2       \* largest acquire_timeout, in ticks
MaxTokenCount == 3    \* largest token_count of an acquire call
MaxHistory == 3       \* calls of record_transition
MaxCount == 4         \* largest count of get_recent_transitions
MaxChapter == 2       \* largest chapter_number of generate_chapter
MaxRunScenes == 1     \* scenes of the run whose events are followed on the bus
MaxStages == 2        \* calls of start_stage
MaxNow == 3           \* last reading of datetime.now, the first being 1

\* ---- input sets --------------------------------------------------------
EventTypes == {"world_query", "world_response"}
Agents == {"world"}
Handlers == {"h1", "h2"}
Middlewares == {"mwFilter", "mwFault"}
Calls == {"c1", "c2"}
RequestTypes == {"world_query"}       \* types of the events clients construct
ReplyTypes == {"world_response"}     \* types handlers pass to create_response

Ids == 1..MaxEvents

\* Event (types.py): correlation_id 0 is None, target_agent "" is None,
\* chapter_number 0 is None, scene_index 0 is None (the scenes are 1, 2).
\* payload, source_agent and timestamp are read by no code of the bus.
Event(id, ty, tgt, corr, ch) ==
    [event_id |-> id, event_type |-> ty, target_agent |-> tgt,
     correlation_id |-> corr, chapter_number |-> ch, scene_index |-> 0]

NoEvent == Event(0, "none", "", 0, 0)

\* A response that takes over the correlation_id of the event it answers.
create_response_forward(self, id, ty) ==
    [Event(id, ty, "", self.correlation_id, self.chapter_number)
        EXCEPT !.scene_index = self.scene_index]

\* Event.create_response: a new event (id is its fresh uuid4) that answers
\* self; target_agent is left at its default.
create_response(self, id, ty) ==
    [Event(id, ty, "", self.event_id, self.chapter_number)
        EXCEPT !.scene_index = self.scene_index]

\* What one middleware returns for an event: the event (possibly changed),
\* None, or an exception.
\* The middleware of the model.  mwFilter drops the responses and marks
\* what it lets through; mwFault fails on the responses and passes on every
\* other event unchanged, as EventLogger (middleware.py) passes on all.
MwApply(mw, ev) ==
    CASE mw = "mwFilter" /\ ev.event_type = "world_response" ->
            [st |-> "none", ev |-> NoEvent]
      [] mw = "mwFilter" ->
            [st |-> "event", ev |-> [ev EXCEPT !.chapter_number = 1]]
      [] mw = "mwFault" /\ ev.event_type = "world_response" ->
            [st |-> "raise", ev |-> NoEvent]
      [] OTHER -> [st |-> "event", ev |-> ev]

VARIABLES
    subscribers,        \* EventBus._subscribers
    directed_handlers,  \* EventBus._directed_handlers ("" = no entry)
    event_log,          \* EventBus._event_log
    middleware,         \* EventBus._middleware
    response_futures,   \* EventBus._response_futures: event id -> call owning the future ("" = no entry)
    future,             \* the asyncio.Future created by each request call
    call,               \* the client tasks: what they called and how it ended
    stack,              \* per task, the nested publish frames
    nextId,             \* next fresh event id (uuid4)
    expired,            \* per call: its timeout has run out since request was called
    \* history, read by the properties only
    created,            \* per event id: the event as constructed, and by whom
    disp,               \* per event id: what publish found and did at lines 50-80
    delivered,          \* <<event id, handler, mode>> -> number of invocations
    completed,          \* <<event id, handler, mode>> -> number of them that ended
    raised,             \* ids of the events for which a handler raised
    setResults,         \* per call: number of future.set_result calls
    mwSeen,             \* per event id: the middleware calls made for it
    lastRegistered      \* per agent: the handler of the latest subscribe_directed

\* The chapter pipeline (pipeline/chapter.py).  A request of the pipeline is
\* "none" (not issued), "issued" (bus.request is awaited), "replied" or
\* "failed" (bus.request raised: timeout or exception).
VARIABLES
    max_revisions,      \* ChapterPipeline._max_revisions
    parallel,           \* ChapterPipeline._parallel
    outline,            \* per scene of the outline: its resolved participants (a count)
    gen,                \* the task running generate_chapter
    plan,               \* the plan request
    scenes,             \* per scene: the task of _generate_scene and its requests
    review,             \* the requests of the current review round
    rounds,             \* history: per finished check round, its issues and whether it revised
    final,              \* the text handed to OutputManager.save_chapter
    done_order,         \* history: the scenes in the order their composition replied
    intermediate,       \* the stages handed to _save_intermediate
    stored,             \* the stages OutputManager.save_intermediate has written
    sent,               \* history: per request of the run, how often it was issued
    save_calls,         \* history: the calls of OutputManager.save_chapter
    memory              \* the plot agent's chapter_summaries and the notes in the
                        \* character agents' memories

\* _resolve_scene_characters (chapter.py:48-86) on one scene plan.
VARIABLES
    characters,         \* ChapterPipeline._characters: the registered names, in insertion order
    scene_plan,         \* the ScenePlan: characters_present and pov_character
    plot_plan,          \* history: the scene plan as the plot agent gave it
    resolution          \* what each call of _resolve_character_name returned,
                        \* and the targets of the reaction requests of the scene

\* VisualPipeline.run (pipeline/visual.py).
VARIABLES
    parallel_scenes,    \* VisualPipeline._parallel
    run,                \* the task running VisualPipeline.run
    expanded_scenes,    \* the number of scenes ExpansionAgent.expand returned
    visual_results,     \* per scene, the entry of visual_results (or its call's state)
    intermediates,      \* the stages VisualOutputManager.save_intermediate has written
    manifest            \* the manifest: "none", "built" or "saved", and its visual_results

\* TokenBucketRateLimiter (llm/rate_limiter.py).
VARIABLES
    limiter,            \* the fields of the TokenBucketRateLimiter
    monotonic,          \* time.monotonic(), in ticks
    acquiring,          \* per task, its call of acquire
    ledger              \* history: the calls that returned, what they took and
                        \* what _refill added to the two buckets

\* EmotionalStateMachine (agents/character/emotional_state.py).
VARIABLES
    character_type,     \* EmotionalStateMachine.character_type
    transition_history, \* EmotionalStateMachine._transition_history
    answer              \* the last call that returned a value, and the value

VARIABLES
    chapter_number,     \* the argument of generate_chapter
    requested           \* per request of the run, the event_id it was published with

VARIABLES
    stages,             \* PipelineTracker._stages
    utcnow              \* the reading of datetime.now(timezone.utc)

busVars == <<subscribers, directed_handlers, event_log, middleware,
             response_futures, future, call, stack, nextId, expired,
             created, disp, delivered, completed, raised, setResults, mwSeen,
             lastRegistered>>

pipelineVars == <<max_revisions, parallel, outline, gen, plan, scenes, review,
                  rounds, final, done_order, intermediate, stored, sent,
                  save_calls, memory>>

resolveVars == <<characters, scene_plan, plot_plan, resolution>>

visualVars == <<parallel_scenes, run, expanded_scenes, visual_results,
                intermediates, manifest>>

limiterVars == <<limiter, monotonic, acquiring, ledger>>

emotionVars == <<character_type, transition_history, answer>>

runVars == <<chapter_number, requested>>

trackerVars == <<stages, utcnow>>

\* What the steps of the bus, of the chapter pipeline, of the name
\* resolution, of the visual pipeline, of the rate limiter and of the
\* emotional state machine leave alone.
offBus == <<pipelineVars, resolveVars, visualVars, limiterVars, emotionVars,
    runVars, trackerVars>>

offPipeline == <<busVars, resolveVars, visualVars, limiterVars, emotionVars,
    runVars, trackerVars>>

offResolve == <<busVars, pipelineVars, visualVars, limiterVars, emotionVars,
    runVars, trackerVars>>

offVisual == <<busVars, pipelineVars, resolveVars, limiterVars, emotionVars,
    runVars, trackerVars>>

offLimiter == <<busVars, pipelineVars, resolveVars, visualVars, emotionVars,
    runVars, trackerVars>>

offEmotion == <<busVars, pipelineVars, resolveVars, visualVars, limiterVars,
    runVars, trackerVars>>

offRun == <<pipelineVars, resolveVars, visualVars, limiterVars, emotionVars,
    trackerVars>>

offTracker == <<busVars, pipelineVars, resolveVars, visualVars, limiterVars,
    emotionVars, runVars>>

vars == <<busVars, pipelineVars, resolveVars, visualVars, limiterVars,
          emotionVars, runVars, trackerVars>>

history == <<created, disp, delivered, completed, raised, setResults, mwSeen>>

busTables == <<subscribers, directed_handlers, middleware, lastRegistered>>

Modes == {"directed", "broadcast"}

IdleCall == [op |-> "none", pc |-> "idle", ev |-> NoEvent,
             result |-> NoEvent, cause |-> "none"]

NewFuture == [created |-> FALSE, done |-> FALSE, result |-> NoEvent]

\* What publish did with an event.  branch: "dropped" or "faulted" by a
\* middleware, else the branch taken after line 50: "resolved" (set_result),
\* "stale" (matched, future already done), "directed", "broadcast".
\* matched: the test of lines 53-56.  req: the state of the request the
\* event answers ("none": it answers no request).  fdone: the future of
\* that request was done.
NoDisp == [branch |-> "unpublished", matched |-> FALSE, req |-> "none",
           fdone |-> FALSE]

\* A publish frame at its first line.
Frame(ev) == [ev |-> ev, pc |-> "middleware", mw |-> 1,
              hs |-> <<>>, res |-> <<>>, ri |-> 1]

BusInit ==
    /\ subscribers = [t \in EventTypes |-> <<>>]
    /\ directed_handlers = [a \in Agents |-> ""]
    /\ event_log = <<>>
    /\ middleware = <<>>
    /\ response_futures = [i \in Ids |-> ""]
    /\ future = [c \in Calls |-> NewFuture]
    /\ call = [c \in Calls |-> IdleCall]
    /\ stack = [c \in Calls |-> <<>>]
    /\ nextId = 1
    /\ expired = [c \in Calls |-> FALSE]
    /\ created = [i \in Ids |-> [ev |-> NoEvent, by |-> "none"]]
    /\ disp = [i \in Ids |-> NoDisp]
    /\ delivered = [k \in Ids \X Handlers \X Modes |-> 0]
    /\ completed = [k \in Ids \X Handlers \X Modes |-> 0]
    /\ raised = {}
    /\ setResults = [c \in Calls |-> 0]
    /\ mwSeen = [i \in Ids |-> <<>>]
    /\ lastRegistered = [a \in Agents |-> ""]

\* ---- helpers -----------------------------------------------------------
Top(st) == st[Len(st)]
Pop(st) == SubSeq(st, 1, Len(st) - 1)
SetTop(st, f) == [st EXCEPT ![Len(st)] = f]

Result(st, ev) == [st |-> st, ev |-> ev]

\* Number of positions of the handler list hs that hold h.
Occurrences(hs, h) == Cardinality({i \in DOMAIN hs : hs[i] = h})

\* The directed branch without its try/except.
DirectedPropagate(exc) == exc

\* Lines 64-75: the try/except Exception around the directed handler and
\* the recursive publish of its response.  The exception is logged and
\* publish returns; what reaches the caller of publish is "none".
DirectedCatch(exc) == "none"

\* A publish frame has ended with exc ("none": it returned; otherwise the
\* origin of the exception it raised); st holds the frames that called it.
\* The callers run on without suspending until one of them has more to do.
RECURSIVE Unwind(_, _)
Unwind(st, exc) ==
    IF st = <<>> THEN [stack |-> <<>>, done |-> TRUE, exc |-> exc]
    ELSE IF Top(st).pc = "directed_publish"
         THEN Unwind(Pop(st), DirectedCatch(exc))
         ELSE \* line 84, inside the loop over the gathered results
              IF exc = "none"
              THEN [stack |-> st, done |-> FALSE, exc |-> "none"]
              ELSE Unwind(Pop(st), exc)

\* The state of task c once its top-level publish has ended with exc.
\* request (lines 98-108): publish is awaited outside the try, so an
\* exception of publish leaves request before wait_for and before finally.
AfterPublish(c, exc) ==
    IF call[c].op = "publish"
    THEN [call[c] EXCEPT !.pc = IF exc = "none" THEN "returned" ELSE "error",
                         !.cause = exc]
    ELSE IF exc = "none"
         THEN [call[c] EXCEPT !.pc = "wait"]
         ELSE [call[c] EXCEPT !.pc = "error", !.cause = exc]

\* The top frame of task c has ended with exc; rest are the frames below.
Finish(c, rest, exc) ==
    LET u == Unwind(rest, exc) IN
    /\ stack' = [stack EXCEPT ![c] = u.stack]
    /\ call' = IF u.done THEN [call EXCEPT ![c] = AfterPublish(c, u.exc)]
               ELSE call

Running(c) == stack[c] # <<>>

\* Task c is inside synchronous code of publish.  The middleware of the
\* repository (middleware.py) contains no await, so the event loop runs a
\* task from one await of a handler, of a gather or of wait_for to the next
\* without running any other task and without time passing.
Runnable(c) == Running(c) /\ Top(stack[c]).pc \in {"middleware", "results"}

Quiet == \A c \in Calls : ~Runnable(c)

\* ---- registration (lines 28-38, 110-112) -----------------------------
\* The bus is wired up before the first event is published (cli.py).
Bootstrap == \A c \in Calls : call[c].pc = "idle"

\* Number of subscriptions made so far, over all event types.
Subscriptions ==
    Cardinality(UNION {{<<t, i>> : i \in DOMAIN subscribers[t]} : t \in EventTypes})

subscribe(t, h) ==
    /\ Bootstrap
    /\ Subscriptions < MaxSubscribers
    /\ subscribers' = [subscribers EXCEPT ![t] = Append(@, h)]
    /\ UNCHANGED <<directed_handlers, lastRegistered, event_log, middleware,
                   response_futures, future, call, stack, nextId, expired,
                   history>>
    /\ UNCHANGED offBus

\* Register that keeps the handler an agent already has.
RegisterFirst(tbl, a, h) == IF tbl[a] = "" THEN [tbl EXCEPT ![a] = h] ELSE tbl

\* Line 38: self._directed_handlers[agent_name] = handler
Register(tbl, a, h) == [tbl EXCEPT ![a] = h]

subscribe_directed(a, h) ==
    /\ Bootstrap
    /\ lastRegistered[a] # h
    /\ directed_handlers' = Register(directed_handlers, a, h)
    /\ lastRegistered' = [lastRegistered EXCEPT ![a] = h]
    /\ UNCHANGED <<subscribers, event_log, middleware, response_futures,
                   future, call, stack, nextId, expired, history>>
    /\ UNCHANGED offBus

add_middleware(m) ==
    /\ Bootstrap
    /\ Len(middleware) < MaxMiddleware
    /\ \A i \in DOMAIN middleware : middleware[i] # m
    /\ middleware' = Append(middleware, m)
    /\ UNCHANGED <<subscribers, directed_handlers, lastRegistered, event_log,
                   response_futures, future, call, stack, nextId, expired,
                   history>>
    /\ UNCHANGED offBus

\* ---- the client calls -------------------------------------------------
\* The tasks start in the order of Calls (they are interchangeable).
MayStart(c) ==
    /\ Quiet
    /\ call[c].pc = "idle"
    /\ nextId <= MaxEvents
    /\ c = "c2" => call["c1"].pc # "idle"

\* The scene_index a task puts on its events: the scene tasks of the
\* pipeline (chapter.py:198, 229, 323) each use their own.
SceneOf(c) == IF c = "c1" THEN 1 ELSE 2

\* The correlation ids a client can put on an event: none, or the id of an
\* event that exists.
KnownCorr == {0} \cup {i \in Ids : i < nextId}

\* await bus.publish(Event(...)) by a client task.
CallPublish(c, ty, tgt, corr) ==
    /\ MayStart(c)
    /\ LET ev == [Event(nextId, ty, tgt, corr, 0)
                     EXCEPT !.scene_index = SceneOf(c)] IN
       /\ call' = [call EXCEPT ![c] = [IdleCall EXCEPT !.op = "publish",
                       !.pc = "publishing", !.ev = ev]]
       /\ stack' = [stack EXCEPT ![c] = <<Frame(ev)>>]
       /\ created' = [created EXCEPT ![ev.event_id] = [ev |-> ev, by |-> "client"]]
    /\ nextId' = nextId + 1
    /\ UNCHANGED <<busTables, event_log, response_futures, future, expired,
                   disp, delivered, completed, raised, setResults, mwSeen>>
    /\ UNCHANGED offBus

\* await bus.request(Event(...), timeout) by a client task: lines 94-98.
\* The requests of the pipeline are new events, without correlation_id.
CallRequest(c, ty, tgt) ==
    /\ MayStart(c)
    /\ LET ev == [Event(nextId, ty, tgt, 0, 0)
                     EXCEPT !.scene_index = SceneOf(c)] IN
       /\ call' = [call EXCEPT ![c] = [IdleCall EXCEPT !.op = "request",
                       !.pc = "publishing", !.ev = ev]]
       /\ stack' = [stack EXCEPT ![c] = <<Frame(ev)>>]
       /\ future' = [future EXCEPT ![c] = [NewFuture EXCEPT !.created = TRUE]]
       /\ response_futures' = [response_futures EXCEPT ![ev.event_id] = c]
       /\ created' = [created EXCEPT ![ev.event_id] = [ev |-> ev, by |-> "client"]]
    /\ nextId' = nextId + 1
    /\ UNCHANGED <<busTables, event_log, expired, disp, delivered, completed,
                   raised, setResults, mwSeen>>
    /\ UNCHANGED offBus

\* ---- publish ------------------------------------------------------------
\* The chain walked from its last element to its first.
MwAtReversed(k) == middleware[Len(middleware) + 1 - k]

\* Line 44: the middleware called in turn k of the loop over the chain.
MwAt(k) == middleware[k]

\* Lines 43-47: one turn of the loop over the middleware chain.
RunMiddleware(c) ==
    /\ Running(c)
    /\ LET f == Top(stack[c])
           r == MwApply(MwAt(f.mw), f.ev)
           id == f.ev.event_id
       IN
       /\ f.pc = "middleware"
       /\ f.mw <= Len(middleware)
       /\ mwSeen' = [mwSeen EXCEPT ![id] =
                        Append(@, [mw |-> MwAt(f.mw), input |-> f.ev])]
       /\ CASE r.st = "event" ->
                 /\ stack' = [stack EXCEPT ![c] =
                        SetTop(@, [f EXCEPT !.ev = r.ev, !.mw = f.mw + 1])]
                 /\ UNCHANGED <<call, disp>>
            [] r.st = "none" ->
                 /\ disp' = [disp EXCEPT ![id].branch = "dropped"]
                 /\ Finish(c, Pop(stack[c]), "none")
            [] OTHER ->
                 /\ disp' = [disp EXCEPT ![id].branch = "faulted"]
                 /\ Finish(c, Pop(stack[c]), "middleware")
    /\ UNCHANGED <<busTables, event_log, response_futures, future, nextId,
                   expired, created, delivered, completed, raised, setResults>>
    /\ UNCHANGED offBus

\* Lines 53-56: does the event answer a pending request?
MatchesPending(ev) ==
    /\ ev.correlation_id # 0
    /\ response_futures[ev.correlation_id] # ""

\* The test of line 63 without its second half: any target is directed.
IsTargeted(ev) == ev.target_agent # ""

\* Line 63: is the event directed at a registered agent?
IsDirected(ev) ==
    /\ ev.target_agent # ""
    /\ directed_handlers[ev.target_agent] # ""

\* Resolve without the test of line 58.
ResolveAgain(fut, ev) == [fut EXCEPT !.done = TRUE, !.result = ev]

\* Lines 57-59: the future of a request after publish has matched ev to it.
Resolve(fut, ev) ==
    IF ~fut.done THEN [fut EXCEPT !.done = TRUE, !.result = ev] ELSE fut

\* Recipients with the test of line 63 ahead of the test of lines 53-56.
RecipientsDirectedFirst(ev) ==
    IF IsDirected(ev)
    THEN [mode |-> "directed", hs |-> <<directed_handlers[ev.target_agent]>>]
    ELSE IF MatchesPending(ev) THEN [mode |-> "none", hs |-> <<>>]
         ELSE [mode |-> "broadcast", hs |-> subscribers[ev.event_type]]

\* The handlers publish hands ev to and how: line 60 (none), line 65 or
\* lines 78-79.
Recipients(ev) ==
    IF MatchesPending(ev) THEN [mode |-> "none", hs |-> <<>>]
    ELSE IF IsDirected(ev)
         THEN [mode |-> "directed",
               hs |-> <<directed_handlers[ev.target_agent]>>]
         ELSE [mode |-> "broadcast", hs |-> subscribers[ev.event_type]]

\* The calls of request whose event ev answers (at most one: ids differ).
Requests(ev) ==
    {c \in Calls : call[c].op = "request"
                   /\ call[c].ev.event_id = ev.correlation_id}

Ended(c) == call[c].pc \in {"returned", "timeout", "error"}

\* What publish finds when ev reaches line 50.
Found(ev) ==
    [matched |-> MatchesPending(ev),
     req |-> IF Requests(ev) = {} THEN "none"
             ELSE IF \A c \in Requests(ev) : Ended(c) THEN "ended"
             ELSE "active",
     fdone |-> \E c \in Requests(ev) : future[c].done]

\* Lines 48-80: the part of publish after the middleware chain, up to the
\* first await of a handler.
\* A log that puts the newest event first.
LogPrepend(log, ev) == <<ev>> \o log

\* Line 50: self._event_log.append(event).
LogAppend(log, ev) == Append(log, ev)

Dispatch(c) ==
    /\ Running(c)
    /\ LET f == Top(stack[c])
           ev == f.ev
           id == ev.event_id
           rc == Recipients(ev)
           fd == Found(ev)
           Did(b) == [branch |-> b, matched |-> fd.matched, req |-> fd.req,
                      fdone |-> fd.fdone]
       IN
       /\ f.pc = "middleware"
       /\ f.mw > Len(middleware)
       /\ event_log' = LogAppend(event_log, ev)
       /\ delivered' = [k \in DOMAIN delivered |->
              IF k[1] = id /\ k[3] = rc.mode
              THEN delivered[k] + Occurrences(rc.hs, k[2])
              ELSE delivered[k]]
       /\ CASE rc.mode = "none" ->
                 LET owner == response_futures[ev.correlation_id] IN
                 /\ future' = [future EXCEPT ![owner] = Resolve(@, ev)]
                 /\ setResults' = [setResults EXCEPT ![owner] =
                        IF future'[owner] # future[owner] THEN @ + 1 ELSE @]
                 /\ disp' = [disp EXCEPT ![id] =
                        Did(IF future'[owner] # future[owner]
                            THEN "resolved" ELSE "stale")]
                 /\ Finish(c, Pop(stack[c]), "none")
            [] rc.mode = "directed" ->
                 /\ stack' = [stack EXCEPT ![c] =
                        SetTop(@, [f EXCEPT !.pc = "directed", !.hs = rc.hs])]
                 /\ disp' = [disp EXCEPT ![id] = Did("directed")]
                 /\ UNCHANGED <<call, future, setResults>>
            [] OTHER ->
                 /\ stack' = [stack EXCEPT ![c] =
                        SetTop(@, [f EXCEPT
                            !.pc = IF rc.hs = <<>> THEN "results" ELSE "gather",
                            !.hs = rc.hs,
                            !.res = [i \in DOMAIN rc.hs |->
                                        Result("running", NoEvent)]])]
                 /\ disp' = [disp EXCEPT ![id] = Did("broadcast")]
                 /\ UNCHANGED <<call, future, setResults>>
    /\ UNCHANGED <<busTables, response_futures, nextId, expired, created,
                   completed, raised, mwSeen>>
    /\ UNCHANGED offBus

\* What a handler can do with an event: return None, raise, or return
\* event.create_response(ty, ...) for some type ty.
Outcomes == {"none", "raise"} \cup ReplyTypes

\* The history of a handler h that has ended with out for the event ev.
HandlerEnded(ev, h, mode, out) ==
    /\ completed' = [completed EXCEPT ![<<ev.event_id, h, mode>>] = @ + 1]
    /\ raised' = IF out = "raise" THEN raised \cup {ev.event_id} ELSE raised
    /\ created' = IF out \in ReplyTypes
                  THEN [created EXCEPT ![nextId] =
                           [ev |-> create_response(ev, nextId, out),
                            by |-> "handler"]]
                  ELSE created
    /\ nextId' = IF out \in ReplyTypes THEN nextId + 1 ELSE nextId

\* A publish that re-publishes a response only from a frame that is not
\* itself nested: a chain-depth guard.
RepublishGuarded(st, ev) == IF Len(st) < 2 THEN Append(st, Frame(ev)) ELSE st

\* Lines 69 and 84: await self.publish(response): a new frame of publish on
\* top of the frames st of the task, whatever their number.
Republish(st, ev) == Append(st, Frame(ev))

\* Lines 65-75: the directed handler of the top frame of c has ended.
DirectedHandlerDone(c, out) ==
    /\ Quiet
    /\ Running(c)
    /\ LET f == Top(stack[c]) IN
       /\ f.pc = "directed"
       /\ out \in ReplyTypes => nextId <= MaxEvents
       /\ HandlerEnded(f.ev, f.hs[1], "directed", out)
       /\ CASE out = "none" -> Finish(c, Pop(stack[c]), "none")
            [] out = "raise" ->
                 Finish(c, Pop(stack[c]), DirectedCatch("handler"))
            [] OTHER ->
                 /\ stack' = [stack EXCEPT ![c] =
                        Republish(SetTop(@, [f EXCEPT !.pc = "directed_publish"]),
                                  create_response(f.ev, nextId, out))]
                 /\ UNCHANGED call
    /\ UNCHANGED <<busTables, event_log, response_futures, future, expired,
                   disp, delivered, setResults, mwSeen>>
    /\ UNCHANGED offBus

\* A gather that returns with the first handler that ends.
AnyDone(res) == \E i \in DOMAIN res : res[i].st # "running"

\* Line 80: gather returns when every handler has ended.
AllDone(res) == \A i \in DOMAIN res : res[i].st # "running"

\* Lines 79-80: handler number i of the gather of the top frame of c has
\* ended; the gather ends with the last of them.
BroadcastHandlerDone(c, i, out) ==
    /\ Quiet
    /\ Running(c)
    /\ LET f == Top(stack[c]) IN
       /\ f.pc = "gather"
       /\ i \in DOMAIN f.res
       /\ f.res[i].st = "running"
       /\ out \in ReplyTypes => nextId <= MaxEvents
       /\ HandlerEnded(f.ev, f.hs[i], "broadcast", out)
       /\ LET r == IF out \in ReplyTypes
                   THEN Result("event", create_response(f.ev, nextId, out))
                   ELSE Result(out, NoEvent)
              res == [f.res EXCEPT ![i] = r]
          IN
          \* return_exceptions=True: an exception of a handler is that
          \* handler's result, and the gather itself raises nothing
          /\ stack' = [stack EXCEPT ![c] = SetTop(@, [f EXCEPT
                 !.res = res,
                 !.pc = IF AllDone(res) THEN "results" ELSE "gather"])]
          /\ UNCHANGED call
    /\ UNCHANGED <<busTables, event_log, response_futures, future, expired,
                   disp, delivered, setResults, mwSeen>>
    /\ UNCHANGED offBus

\* Lines 82-88: the loop over the gathered results, up to the next result
\* that is an Event (publish is awaited for it) or to the end of publish.
BroadcastResults(c) ==
    /\ Running(c)
    /\ LET f == Top(stack[c])
           evs == {j \in DOMAIN f.res : j >= f.ri /\ f.res[j].st = "event"}
       IN
       /\ f.pc = "results"
       /\ IF evs = {}
          THEN Finish(c, Pop(stack[c]), "none")
          ELSE LET j == CHOOSE k \in evs : \A m \in evs : k <= m IN
               /\ stack' = [stack EXCEPT ![c] =
                      Republish(SetTop(@, [f EXCEPT !.ri = j + 1]),
                                f.res[j].ev)]
               /\ UNCHANGED call
    /\ UNCHANGED <<busTables, event_log, response_futures, future, nextId,
                   expired, history>>
    /\ UNCHANGED offBus

\* ---- request: lines 100-108 ---------------------------------------------
\* finally: self._response_futures.pop(event.event_id, None)
PopEntry(c) == [response_futures EXCEPT ![call[c].ev.event_id] = ""]

\* wait_for returns the result of the future.
RequestReturn(c) ==
    /\ Quiet
    /\ call[c].pc = "wait"
    /\ future[c].done
    /\ call' = [call EXCEPT ![c].pc = "returned",
                            ![c].result = future[c].result]
    /\ response_futures' = PopEntry(c)
    /\ UNCHANGED <<busTables, event_log, future, stack, nextId, expired,
                   history>>
    /\ UNCHANGED offBus

\* The timer of wait_for fires: wait_for raises asyncio.TimeoutError,
\* request raises TimeoutError.  The timer was armed no earlier than the
\* call, so the timeout counted from the call has run out.
RequestTimeout(c) ==
    /\ Quiet
    /\ call[c].pc = "wait"
    /\ ~future[c].done
    /\ expired[c]
    /\ call' = [call EXCEPT ![c].pc = "timeout"]
    /\ response_futures' = PopEntry(c)
    /\ UNCHANGED <<busTables, event_log, future, stack, nextId, expired,
                   history>>
    /\ UNCHANGED offBus

\* The timeout of request c, counted from the call, runs out.  Nothing in
\* request looks at the time before wait_for is reached; the model lets the
\* time run out while request waits in wait_for or for the directed handler
\* of its event.
Elapse(c) ==
    /\ Quiet
    /\ call[c].op = "request"
    /\ \/ call[c].pc = "wait"
       \/ /\ call[c].pc = "publishing"
          /\ Len(stack[c]) = 1
          /\ Top(stack[c]).pc = "directed"
    /\ ~expired[c]
    /\ expired' = [expired EXCEPT ![c] = TRUE]
    /\ UNCHANGED <<busTables, event_log, response_futures, future, call,
                   stack, nextId, history>>
    /\ UNCHANGED offBus

\* ==== name resolution (pipeline/chapter.py:48-86, 215-234) ================
\* A name is the sequence of its characters; the empty sequence is also
\* None, which the code does not tell from an empty string (lines 75, 83).
Letters == {"a", "b"}

NameChars == Letters \cup {"(", " "}

Strings(S, n) == UNION {[1..k -> S] : k \in 0..n}

\* The names the plot agent can put into a scene plan.
PlotNames == Strings(NameChars, MaxNameLen)

\* The names agents are registered under.
AgentNames == Strings(Letters, MaxAgentNameLen) \ {<<>>}

\* dict keys: sequences of distinct registered names.
Registries ==
    {r \in Strings(AgentNames, MaxRegistered) :
        \A i, j \in DOMAIN r : i # j => r[i] # r[j]}

ScenePlan(present, pov) == [characters_present |-> present,
                            pov_character |-> pov]

NoResolution == [pc |-> "start", present |-> <<>>, pov |-> <<>>,
                 targets |-> <<>>]

ResolveOff ==
    /\ characters = <<>>
    /\ scene_plan = ScenePlan(<<>>, <<>>)
    /\ plot_plan = ScenePlan(<<>>, <<>>)
    /\ resolution = NoResolution

\* A pipeline with its registered agents and a scene plan of the plot
\* agent, whose point-of-view character is none or one of those present.
ResolveInit ==
    /\ characters \in Registries
    /\ \E present \in Strings(PlotNames, MaxPresent) :
       \E pov \in {<<>>} \cup {present[i] : i \in DOMAIN present} :
          /\ scene_plan = ScenePlan(present, pov)
          /\ plot_plan = ScenePlan(present, pov)
    /\ resolution = NoResolution

\* Python's `a in b` on strings.
IsSubstring(a, b) ==
    \E i \in 0..(Len(b) - Len(a)) : SubSeq(b, i + 1, i + Len(a)) = a

\* name.split("(")[0]: the name up to its first "(".
RECURSIVE BeforeParen(_)
BeforeParen(n) ==
    IF n = <<>> \/ Head(n) = "(" THEN <<>>
    ELSE <<Head(n)>> \o BeforeParen(Tail(n))

\* str.strip(): without the whitespace at either end.
RECURSIVE strip(_)
strip(n) ==
    IF n = <<>> THEN <<>>
    ELSE IF Head(n) = " " THEN strip(Tail(n))
    ELSE IF n[Len(n)] = " " THEN strip(SubSeq(n, 1, Len(n) - 1))
    ELSE n

IsRegistered(n) == \E i \in DOMAIN characters : characters[i] = n

\* The loop of lines 57-59 that returns the last match instead of the first.
RECURSIVE LastContained(_, _)
LastContained(k, n) ==
    IF k > Len(characters) THEN <<>>
    ELSE IF LastContained(k + 1, n) # <<>> THEN LastContained(k + 1, n)
    ELSE IF IsSubstring(characters[k], n) THEN characters[k]
    ELSE <<>>

\* The loop of lines 57-59 with str.endswith in the place of `in`.
RECURSIVE FirstEnding(_, _)
FirstEnding(k, n) ==
    IF k > Len(characters) THEN <<>>
    ELSE IF /\ Len(characters[k]) <= Len(n)
            /\ SubSeq(n, Len(n) - Len(characters[k]) + 1, Len(n)) = characters[k]
         THEN characters[k]
    ELSE FirstEnding(k + 1, n)

\* Lines 57-59 from the k-th registered name on: the first registered name
\* contained in n.
RECURSIVE FirstContained(_, _)
FirstContained(k, n) ==
    IF k > Len(characters) THEN <<>>
    ELSE IF IsSubstring(characters[k], n) THEN characters[k]
    ELSE FirstContained(k + 1, n)

\* Lines 61-63 from the k-th registered name on: the first registered name
\* that contains n.
RECURSIVE FirstContaining(_, _)
FirstContaining(k, n) ==
    IF k > Len(characters) THEN <<>>
    ELSE IF IsSubstring(n, characters[k]) THEN characters[k]
    ELSE FirstContaining(k + 1, n)

\* Lines 48-68.
resolve_character_name(name_from_plot) ==
    IF IsRegistered(name_from_plot) THEN name_from_plot
    ELSE IF FirstContained(1, name_from_plot) # <<>>
         THEN FirstContained(1, name_from_plot)
    ELSE IF FirstContaining(1, name_from_plot) # <<>>
         THEN FirstContaining(1, name_from_plot)
    ELSE LET stripped == strip(BeforeParen(name_from_plot)) IN
         IF stripped # <<>> /\ IsRegistered(stripped) THEN stripped
         ELSE <<>>

\* A resolution that keeps a name it cannot resolve as it is.
ResolvedOrKept(present) ==
    [i \in DOMAIN present |->
        IF resolve_character_name(present[i]) # <<>>
        THEN resolve_character_name(present[i]) ELSE present[i]]

\* Lines 72-81: the loop appends each name's resolution if there is one and
\* logs a warning for the others.
Resolved(present) ==
    SelectSeq([i \in DOMAIN present |-> resolve_character_name(present[i])],
              LAMBDA r : r # <<>>)

\* Lines 70-86: the names that resolve replace characters_present, in
\* order; pov_character is replaced if it resolves.
resolve_scene_characters ==
    /\ resolution.pc = "start"
    /\ LET present == scene_plan.characters_present
           pov == scene_plan.pov_character
           got == [i \in DOMAIN present |-> resolve_character_name(present[i])]
           got_pov == IF pov # <<>> THEN resolve_character_name(pov) ELSE <<>>
       IN
       /\ scene_plan' = ScenePlan(Resolved(present),
                                  IF got_pov # <<>> THEN got_pov ELSE pov)
       /\ resolution' = [resolution EXCEPT !.pc = "done", !.present = got,
                                           !.pov = got_pov]
    /\ UNCHANGED <<characters, plot_plan>>
    /\ UNCHANGED offResolve

\* Lines 215-234 of _stage_character_reactions, called for the resolved
\* scene plan: one reaction request per entry of characters_present that is
\* a registered name, addressed to it; without a request the stage returns
\* the empty list at once, else it awaits the requests.
stage_character_reactions ==
    /\ resolution.pc = "done"
    /\ LET tasks == SelectSeq(scene_plan.characters_present, IsRegistered) IN
       resolution' = [resolution EXCEPT
           !.pc = IF tasks = <<>> THEN "returned" ELSE "awaiting",
           !.targets = tasks]
    /\ UNCHANGED <<characters, scene_plan, plot_plan>>
    /\ UNCHANGED offResolve

ResolveNext ==
    \/ resolve_scene_characters
    \/ stage_character_reactions

\* ==== the chapter pipeline (pipeline/chapter.py) ===========================
\* One run of generate_chapter and the tasks it starts.  A step is the code
\* a task runs between two awaits of bus.request, with the joins of
\* asyncio.gather it completes on the way.  The bus is seen through what
\* bus.request does for its caller: it returns a reply or raises.

\* Line 381: a round with at most this many issues does not revise.
MinorIssues == 2

CheckKinds == {"consistency", "quality"}

\* The outlines a plan reply can carry, after _resolve_scene_characters:
\* per scene the number of its participants.
Outlines ==
    UNION {[1..n -> 0..MaxParticipants] : n \in 0..MaxScenes}

\* A chapter text: the header and the scene texts it was assembled from
\* (line 123), and rev, the round whose revision reply it is (0: none).
Draft(body, rev) == [header |-> "header", body |-> body, rev |-> rev]

NoDraft == [header |-> "", body |-> <<>>, rev |-> 0]

\* The task of _generate_scene for one scene, its two branches and its
\* requests.  react: the reaction requests in participant order; carried:
\* the reactions the composition request was issued with; text: the reply
\* of the composition (0: none; the text of scene s is s).
IdleScene == [pc |-> "none", setting |-> "none", chars |-> "none",
              react |-> <<>>, compose |-> "none", carried |-> <<>>,
              text |-> 0]

IdleGen == [pc |-> "idle", cause |-> "none", draft |-> NoDraft,
            result |-> NoDraft]

IdleReview == [round |-> 0,
               checks |-> [q \in CheckKinds |-> "none"],
               issues |-> [q \in CheckKinds |-> 0],
               revision |-> "none"]

Stage(name, n) == [stage |-> name, n |-> n]

\* The requests a run can issue: the plan, per scene its setting, its
\* reactions (by participant) and its composition, the two checks and the
\* revision (of any round).
Request(kind, s, j) == <<kind, s, j>>

RequestIds ==
    {Request("plan", 0, 0), Request("revision", 0, 0)}
    \cup {Request(q, 0, 0) : q \in CheckKinds}
    \cup {Request(k, s, 0) : k \in {"setting", "compose"}, s \in 1..MaxScenes}
    \cup {Request("reaction", s, j) : s \in 1..MaxScenes,
                                     j \in 1..MaxParticipants}

\* The value of a key that was never stored (MemoryStore.retrieve).
None == [type |-> "None", items |-> <<>>]

\* A list in a memory.
List(items) == [type |-> "list", items |-> items]

\* Line 425: the summary of a chapter text is its first 500 characters; of
\* the texts of the model, the header and the first MaxSummary scenes.
Summary(d) ==
    [header |-> d.header,
     body |-> SubSeq(d.body, 1, IF Len(d.body) < MaxSummary
                                THEN Len(d.body) ELSE MaxSummary)]

\* The summary of an earlier chapter.
EarlierSummary == [header |-> "earlier", body |-> <<>>]

\* The values of chapter_summaries before a run: never stored, or the list
\* of the summaries of earlier chapters.
Summaries == {None, List(<<EarlierSummary>>)}

Memory(summaries, notes) == [chapter_summaries |-> summaries, notes |-> notes]

\* The pipeline before generate_chapter is called.
PipelineIdle ==
    /\ outline = <<>>
    /\ gen = IdleGen
    /\ plan = "none"
    /\ scenes = [s \in 1..MaxScenes |-> IdleScene]
    /\ review = IdleReview
    /\ rounds = <<>>
    /\ final = NoDraft
    /\ done_order = <<>>
    /\ intermediate = {}
    /\ stored = {}
    /\ sent = [i \in RequestIds |-> 0]
    /\ save_calls = 0

\* Lines 26-46: the pipeline as constructed.
PipelineInit ==
    /\ max_revisions \in 0..MaxRounds
    /\ parallel \in BOOLEAN
    /\ memory \in {Memory(m, {}) : m \in Summaries}
    /\ PipelineIdle

\* The pipeline where it is not run: the defaults of lines 35-36.
PipelineOff ==
    /\ max_revisions = 3
    /\ parallel = TRUE
    /\ memory = Memory(None, {})
    /\ PipelineIdle

Over(st) == st \in {"replied", "failed"}

\* A failure that is swallowed: the run goes on to its last stage.
Swallow(g, cause) == [g EXCEPT !.pc = "finalize"]

\* generate_chapter ends with an exception of stage cause.
Raise(g, cause) == [g EXCEPT !.pc = "raised", !.cause = cause]

\* ---- generate_chapter: the plan, lines 88-113 ---------------------------
\* bus.request is called once for each request of ids.
Send(ids) ==
    sent' = [i \in RequestIds |-> sent[i] + IF i \in ids THEN 1 ELSE 0]

\* Lines 367-370: the two check requests of a round.
Checks == {Request(q, 0, 0) : q \in CheckKinds}

\* Lines 341-370: round r of the review loop starts; both checks are issued
\* by the gather of lines 367-370.
NewRound(r) ==
    [IdleReview EXCEPT !.round = r,
                       !.checks = [q \in CheckKinds |-> "issued"]]

\* Lines 446-455 and output/manager.py:92-111: _save_intermediate is called
\* for each of the stages handed; those of w are written, the save of each
\* other raises.
Saves(handed, w) ==
    /\ w \subseteq handed
    /\ intermediate' = intermediate \cup handed
    /\ stored' = stored \cup w
    /\ Cardinality((intermediate \cup handed) \ (stored \cup w))
          <= MaxLostSaves

\* _save_intermediate that lets the exception of a failed save through.
save_intermediate_raising(g, handed, w) ==
    IF w = handed THEN g ELSE Raise(g, "intermediate")

\* Lines 446-455: _save_intermediate was called for the stages handed, of
\* which those of w were written; the exception of each other save is
\* caught and logged, and the run goes on as g.
save_intermediate(g, handed, w) == g

\* A review that is skipped only for a negative number of rounds.
ReviewDisabledBelowZero == max_revisions < 0

\* Line 335: the review loop is disabled.
ReviewDisabled == max_revisions <= 0

\* Lines 125-129 and 335-339: after the saves of the stages handed,
\* _stage_review_and_revise is called with draft d; without review rounds
\* it returns d at once.
StartReview(d, handed, w) ==
    IF ReviewDisabled
    THEN /\ gen' = save_intermediate(
                       [gen EXCEPT !.pc = "finalize", !.draft = d], handed, w)
         /\ review' = review
         /\ sent' = sent
    ELSE /\ gen' = save_intermediate(
                       [gen EXCEPT !.pc = "review", !.draft = d], handed, w)
         /\ review' = NewRound(1)
         /\ Send(Checks)

\* generate_chapter is called: lines 88-94 and 140-152, the plan request.
GenerateChapter ==
    /\ gen.pc = "idle"
    /\ gen' = [gen EXCEPT !.pc = "plan"]
    /\ plan' = "issued"
    /\ Send({Request("plan", 0, 0)})
    /\ UNCHANGED <<max_revisions, parallel, outline, scenes, review, rounds,
                   final, done_order, intermediate>>
    /\ UNCHANGED <<stored, save_calls, memory>>
    /\ UNCHANGED offPipeline

\* The scene texts in the order of completion of the scenes.
GatherByCompletion(scs, order, n) == [i \in 1..n |-> scs[order[i]].text]

\* Lines 113-114: gather returns the results of the scene tasks in the
\* order of the tasks it was given, that is in outline order.
GatherResults(scs, order, n) == [i \in 1..n |-> scs[i].text]

\* The plan request ends: lines 152-153 and 94-113.  With a reply the
\* outline o is stored and one task per scene is created (with no scene the
\* gather of line 113 returns at once and the review starts).
PlanEnd(out, o, w) ==
    /\ plan = "issued"
    /\ plan' = out
    /\ IF out = "failed"
       THEN /\ o = <<>>
            /\ w = {}
            /\ gen' = Raise(gen, "plan")
            /\ UNCHANGED <<outline, scenes, review, intermediate, stored,
                           sent>>
       ELSE /\ Saves({Stage("outline", 0)}, w)
            /\ outline' = o
            /\ scenes' = [s \in 1..MaxScenes |->
                  IF s <= Len(o)
                  THEN [IdleScene EXCEPT !.pc = "start",
                                         !.react = [j \in 1..o[s] |-> "none"]]
                  ELSE IdleScene]
            /\ IF Len(o) = 0
               THEN StartReview(Draft(GatherResults(scenes, <<>>, 0), 0),
                                {Stage("outline", 0)}, w)
               ELSE /\ gen' = save_intermediate([gen EXCEPT !.pc = "scenes"],
                                                {Stage("outline", 0)}, w)
                    /\ review' = review
                    /\ sent' = sent
    /\ UNCHANGED <<max_revisions, parallel, rounds, final, done_order>>
    /\ UNCHANGED <<save_calls, memory>>
    /\ UNCHANGED offPipeline

\* ---- _generate_scene, lines 155-183 --------------------------------------
\* The reactions of the requests that replied, the last participant first.
ReactionsNewestFirst(react) ==
    LET idx == {j \in DOMAIN react : react[j] = "replied"} IN
    [i \in 1..Cardinality(idx) |->
        CHOOSE j \in idx : Cardinality({m \in idx : m >= j}) = i]

\* Lines 247-253: the reactions of the requests that replied, in the order
\* of the results, which is the order of the participants (a reaction is
\* named by the place of its participant).
Reactions(react) ==
    LET idx == {j \in DOMAIN react : react[j] = "replied"} IN
    [i \in 1..Cardinality(idx) |->
        CHOOSE j \in idx : Cardinality({m \in idx : m <= j}) = i]

\* A failed reaction request that ends the reaction stage with its exception.
ReactionRaisesUncaught(out) == out = "failed"

\* Lines 237 and 241-245: return_exceptions=True, or the try/except around
\* each await, keeps the exception of a reaction request as its result.
ReactionRaises(out) == FALSE

\* A scene that composes as soon as its setting is enriched.
SceneJoinedEarly(sc) == sc.setting = "replied"

\* Lines 170-172: the gather of the scene returns when the world branch and
\* the reaction branch both have.
SceneJoined(sc) == sc.setting = "replied" /\ sc.chars = "done"

\* Lines 170-175 and 302-325: a branch of the scene has returned; once both
\* have, the composition request is issued with the gathered reactions.
Composes(sc) == sc.pc = "gather" /\ SceneJoined(sc)

AfterBranch(sc) ==
    IF Composes(sc)
    THEN [sc EXCEPT !.pc = "compose", !.compose = "issued",
                    !.carried = Reactions(sc.react)]
    ELSE sc

\* The task of scene s runs to its gather (lines 164-172) and the two
\* branches start: the setting request is issued (lines 192-200); the
\* reaction requests are created (lines 215-231) and, in parallel mode, all
\* issued by the gather of line 237, else the first is awaited (line 242).
\* A scene without participants has no reaction request (lines 233-234).
\* A reaction stage that starts all its requests in either mode.
FirstReactionsAll(k) == 1..k

\* Lines 236-242: of k reaction requests, those awaited first: all of them
\* in parallel mode, the first one else.
FirstReactions(k) == IF parallel THEN 1..k ELSE 1..k \cap {1}

SceneStart(s) ==
    /\ scenes[s].pc = "start"
    /\ LET k == Len(scenes[s].react) IN
       /\ scenes' = [scenes EXCEPT ![s] = [@ EXCEPT
           !.pc = "gather",
           !.setting = "issued",
           !.chars = IF k = 0 THEN "done" ELSE "running",
           !.react = [j \in 1..k |->
                         IF j \in FirstReactions(k) THEN "issued" ELSE "none"]]]
       /\ Send({Request("setting", s, 0)}
               \cup {Request("reaction", s, j) : j \in FirstReactions(k)})
    /\ UNCHANGED <<max_revisions, parallel, outline, gen, plan, review, rounds,
                   final, done_order, intermediate>>
    /\ UNCHANGED <<stored, save_calls, memory>>
    /\ UNCHANGED offPipeline

\* A setting request whose failure is kept as a result, like that of a
\* reaction request.
SettingRaisesNever(out) == FALSE

\* Lines 170-172 and 200: bus.request is awaited outside any try and the
\* gather of the scene has no return_exceptions: the exception of the
\* setting request leaves _stage_validate_world and _generate_scene.
SettingRaises(out) == out = "failed"

\* The setting request of scene s ends: lines 200-201.  Its exception
\* leaves _stage_validate_world, the gather of line 170, _generate_scene
\* and, while generate_chapter awaits it, the gather of line 113.
SettingEnd(s, out) ==
    /\ scenes[s].setting = "issued"
    /\ LET sc == [scenes[s] EXCEPT !.setting = out]
           fails == SettingRaises(out) /\ sc.pc = "gather"
       IN
       /\ scenes' = [scenes EXCEPT ![s] =
              IF fails THEN [sc EXCEPT !.pc = "raised"] ELSE AfterBranch(sc)]
       /\ gen' = IF fails /\ gen.pc = "scenes"
                 THEN Raise(gen, "setting") ELSE gen
       /\ Send(IF ~fails /\ Composes(sc)
               THEN {Request("compose", s, 0)} ELSE {})
    /\ UNCHANGED <<max_revisions, parallel, outline, plan, review, rounds,
                   final, done_order, intermediate>>
    /\ UNCHANGED <<stored, save_calls, memory>>
    /\ UNCHANGED offPipeline

\* Reaction request j of scene s ends: lines 236-253.  In sequential mode
\* the next request is awaited; after the last result the stage returns.
ReactionEnd(s, j, out) ==
    /\ j \in DOMAIN scenes[s].react
    /\ scenes[s].react[j] = "issued"
    /\ LET sc == scenes[s]
           r1 == [sc.react EXCEPT ![j] = out]
           next == ~parallel /\ j < Len(r1) /\ ~ReactionRaises(out)
           r2 == IF next THEN [r1 EXCEPT ![j + 1] = "issued"] ELSE r1
           all == \A i \in DOMAIN r2 : Over(r2[i])
           sc1 == [sc EXCEPT !.react = r2,
                             !.chars = IF all THEN "done" ELSE "running"]
           fails == ReactionRaises(out) /\ sc.pc = "gather"
       IN
       /\ scenes' = [scenes EXCEPT ![s] =
              IF fails THEN [sc1 EXCEPT !.pc = "raised"] ELSE AfterBranch(sc1)]
       /\ gen' = IF fails /\ gen.pc = "scenes"
                 THEN Raise(gen, "reaction") ELSE gen
       /\ Send((IF next THEN {Request("reaction", s, j + 1)} ELSE {})
               \cup (IF ~fails /\ Composes(sc1)
                     THEN {Request("compose", s, 0)} ELSE {}))
    /\ UNCHANGED <<max_revisions, parallel, outline, plan, review, rounds,
                   final, done_order, intermediate>>
    /\ UNCHANGED <<stored, save_calls, memory>>
    /\ UNCHANGED offPipeline

\* Every scene task of the outline has returned its text.
AllScenesDone(scs) == \A i \in 1..Len(outline) : scs[i].pc = "done"

\* The composition request of scene s ends: lines 325-326 and 183.  With
\* the reply of the last scene the gather of line 113 returns: the scene
\* drafts are saved (lines 115-118), the chapter is assembled (lines
\* 122-123) and the review starts.  An exception leaves _generate_scene
\* and, while generate_chapter awaits it, the gather of line 113.
ComposeEnd(s, out, w) ==
    /\ scenes[s].compose = "issued"
    /\ IF out = "replied"
       THEN LET scs == [scenes EXCEPT ![s] = [@ EXCEPT
                           !.compose = "replied", !.text = s, !.pc = "done"]]
                order == Append(done_order, s)
                n == Len(outline)
                drafts == {Stage("scene_draft", i) : i \in 1..n}
            IN
            /\ scenes' = scs
            /\ done_order' = order
            /\ IF gen.pc = "scenes" /\ AllScenesDone(scs)
               THEN /\ Saves(drafts, w)
                    /\ StartReview(Draft(GatherResults(scs, order, n), 0),
                                   drafts, w)
               ELSE /\ w = {}
                    /\ UNCHANGED <<gen, review, intermediate, stored, sent>>
       ELSE /\ w = {}
            /\ scenes' = [scenes EXCEPT ![s] = [@ EXCEPT
                           !.compose = "failed", !.pc = "raised"]]
            /\ gen' = IF gen.pc = "scenes"
                      THEN Raise(gen, "compose") ELSE gen
            /\ UNCHANGED <<done_order, review, intermediate, stored, sent>>
    /\ UNCHANGED <<max_revisions, parallel, outline, plan, rounds, final>>
    /\ UNCHANGED <<save_calls, memory>>
    /\ UNCHANGED offPipeline

\* ---- _stage_review_and_revise, lines 328-412 ------------------------------
\* A round that revises whenever a check found anything.
NeedsRevisionAny(n) == n > 0

\* Lines 376-386: the loop ends without revising when there is no issue or
\* there are at most MinorIssues of them.
NeedsRevision(n) == ~(n = 0) /\ ~(n <= MinorIssues)

\* A loop that runs one round more than max_revision_rounds.
LastRoundLate(r) == r >= max_revisions + 1

\* Line 341: round r (counted from 1) is the last of range(max_revisions).
LastRound(r) == r >= max_revisions

\* Lines 372-374: the merged issue list.
AllIssues(rv) == rv.issues["consistency"] + rv.issues["quality"]

\* Check q of the current round ends, with n issues if it replied: lines
\* 367-404.  An exception leaves the gather and generate_chapter.  When
\* both have replied the issues are merged and the loop ends or the round
\* is saved (lines 389-393) and the revision request is issued.
CheckEnd(q, out, n, w) ==
    /\ review.checks[q] = "issued"
    /\ out = "failed" => n = 0
    /\ LET rv == [review EXCEPT !.checks[q] = out, !.issues[q] = n]
           round == {Stage("review_round", rv.round)}
       IN
       CASE out = "failed" ->
               /\ w = {}
               /\ review' = rv
               /\ gen' = IF gen.pc = "review" THEN Raise(gen, "check") ELSE gen
               /\ UNCHANGED <<rounds, intermediate, stored, sent>>
         [] out = "replied" /\ \A k \in CheckKinds : rv.checks[k] = "replied" ->
               /\ rounds' = Append(rounds,
                      [issues |-> AllIssues(rv),
                       revised |-> NeedsRevision(AllIssues(rv))])
               /\ IF NeedsRevision(AllIssues(rv))
                  THEN /\ Saves(round, w)
                       /\ review' = [rv EXCEPT !.revision = "issued"]
                       /\ gen' = save_intermediate(gen, round, w)
                       /\ Send({Request("revision", 0, 0)})
                  ELSE /\ w = {}
                       /\ review' = rv
                       /\ gen' = [gen EXCEPT !.pc = "finalize"]
                       /\ UNCHANGED <<intermediate, stored, sent>>
         [] OTHER ->
               /\ w = {}
               /\ review' = rv
               /\ UNCHANGED <<gen, rounds, intermediate, stored, sent>>
    /\ UNCHANGED <<max_revisions, parallel, outline, plan, scenes, final,
                   done_order>>
    /\ UNCHANGED <<save_calls, memory>>
    /\ UNCHANGED offPipeline

\* The revision request of the current round ends: lines 405-412.  The
\* reply of the writing agent (writing.py:48-52) carries the revised text,
\* which becomes the working draft; the next round starts or the loop ends.
RevisionEnd(out) ==
    /\ review.revision = "issued"
    /\ IF out = "failed"
       THEN /\ review' = [review EXCEPT !.revision = "failed"]
            /\ gen' = Raise(gen, "revision")
            /\ sent' = sent
       ELSE LET d == [gen.draft EXCEPT !.rev = review.round] IN
            IF LastRound(review.round)
            THEN /\ review' = [review EXCEPT !.revision = "replied"]
                 /\ gen' = [gen EXCEPT !.pc = "finalize", !.draft = d]
                 /\ sent' = sent
            ELSE /\ review' = NewRound(review.round + 1)
                 /\ gen' = [gen EXCEPT !.draft = d]
                 /\ Send(Checks)
    /\ UNCHANGED <<max_revisions, parallel, outline, plan, scenes, rounds,
                   final, done_order, intermediate>>
    /\ UNCHANGED <<stored, save_calls, memory>>
    /\ UNCHANGED offPipeline

\* ---- _stage_finalize, lines 131-138 and 414-444 ---------------------------
FinalizeOutcomes == {"saved", "save_failed", "memory_failed"}

MaxWrites == 1 + MaxScenes * MaxParticipants

\* Lines 434-436: the participant entries of the outline, scene by scene.
Participants(o) == {<<s, j>> : s \in DOMAIN o, j \in 1..MaxParticipants} \cap
                   {p \in (1..MaxScenes) \X (1..MaxParticipants) :
                       p[1] \in DOMAIN o /\ p[2] <= o[p[1]]}

\* The place of a participant entry in the loops of lines 434-435.
Place(o, p) ==
    Cardinality({q \in Participants(o) :
                    q[1] < p[1] \/ (q[1] = p[1] /\ q[2] <= p[2])})

\* The memory writes of _stage_finalize: the summary and one note per
\* participant entry.
Writes(o) == 1 + Cardinality(Participants(o))

\* Lines 428-431: the summary is appended to the list retrieved, or to a
\* new list if there is none, and the list is stored.
AppendSummary(m, d) ==
    IF m = None THEN List(<<Summary(d)>>)
    ELSE List(Append(m.items, Summary(d)))

\* A finalize stage that updates the memories before it saves the chapter.
FinalizedMemoryFirst(m, d, o, saved, k) ==
    Memory(IF k >= 1 THEN AppendSummary(m.chapter_summaries, d)
           ELSE m.chapter_summaries,
           m.notes \cup {p \in Participants(o) : Place(o, p) <= k - 1})

\* Lines 422-444: the memories after _stage_finalize for text d, whose
\* save_chapter did or did not succeed and of whose memory writes the first
\* k were made: none without the save, then the summary, then the notes in
\* the order of the outline.
Finalized(m, d, o, saved, k) ==
    IF ~saved THEN m
    ELSE Memory(IF k >= 1 THEN AppendSummary(m.chapter_summaries, d)
                ELSE m.chapter_summaries,
                m.notes \cup {p \in Participants(o) : Place(o, p) <= k - 1})

\* save_chapter is called with the final text (line 422) and the memories
\* are updated (lines 425-444), k writes of them before an exception, if
\* any; an exception of either leaves generate_chapter, else it returns
\* the final text (line 138).
StageFinalize(out, k) ==
    /\ gen.pc = "finalize"
    /\ k \in 0..Writes(outline)
    /\ out = "saved" => k = Writes(outline)
    /\ out = "memory_failed" => k < Writes(outline)
    /\ save_calls' = save_calls + 1
    /\ final' = IF out = "save_failed" THEN final ELSE gen.draft
    /\ memory' = Finalized(memory, gen.draft, outline, out # "save_failed", k)
    /\ gen' = IF out = "saved"
              THEN [gen EXCEPT !.pc = "returned", !.result = gen.draft]
              ELSE Raise(gen, "finalize")
    /\ UNCHANGED <<max_revisions, parallel, outline, plan, scenes, review,
                   rounds, done_order, intermediate>>
    /\ UNCHANGED <<stored, sent>>
    /\ UNCHANGED offPipeline

RequestOutcomes == {"replied", "failed"}

PipelineNext ==
    \/ GenerateChapter
    \/ \E out \in RequestOutcomes, o \in Outlines,
          w \in SUBSET {Stage("outline", 0)} : PlanEnd(out, o, w)
    \/ \E s \in 1..MaxScenes : SceneStart(s)
    \/ \E s \in 1..MaxScenes, out \in RequestOutcomes : SettingEnd(s, out)
    \/ \E s \in 1..MaxScenes, j \in 1..MaxParticipants,
          out \in RequestOutcomes : ReactionEnd(s, j, out)
    \/ \E s \in 1..MaxScenes, out \in RequestOutcomes,
          w \in SUBSET {Stage("scene_draft", i) : i \in 1..MaxScenes} :
          ComposeEnd(s, out, w)
    \/ \E q \in CheckKinds, out \in RequestOutcomes, n \in 0..MaxIssues,
          w \in SUBSET {Stage("review_round", r) : r \in 1..MaxRounds} :
          CheckEnd(q, out, n, w)
    \/ \E out \in RequestOutcomes : RevisionEnd(out)
    \/ \E out \in FinalizeOutcomes, k \in 0..MaxWrites : StageFinalize(out, k)

\* ==== the visual pipeline (pipeline/visual.py) =============================
\* One call of VisualPipeline.run.  A step is the code between two awaits
\* of an agent: extract, expand, generate_visuals per scene; the saves of
\* the output manager are synchronous file writes that succeed or raise.
IdleRun == [pc |-> "idle", cause |-> "none"]

\* An entry of visual_results: a result dict or an error dict, with the
\* scene_index it has (-1: it has none), or the exception a gather kept;
\* "none" and "issued" are the calls that have not returned.
Entry(st, scene_index) == [st |-> st, scene_index |-> scene_index]

Manifest(state, results) == [state |-> state, visual_results |-> results]

VisualIdle ==
    /\ run = IdleRun
    /\ expanded_scenes = 0
    /\ visual_results = <<>>
    /\ intermediates = {}
    /\ manifest = Manifest("none", <<>>)

\* Lines 28-49: the pipeline as constructed.
VisualInit ==
    /\ parallel_scenes \in BOOLEAN
    /\ VisualIdle

\* The visual pipeline where it is not run: the default of line 36.
VisualOff ==
    /\ parallel_scenes = TRUE
    /\ VisualIdle

\* run ends with an exception of stage cause.
RunRaise(cause) == [pc |-> "raised", cause |-> cause]

\* Lines 76 and 86 with visual/output.py:27-33: save_intermediate is awaited
\* outside any try and catches nothing itself, so the exception of a write
\* that fails leaves run; else run goes on as r.
SaveIntermediate(r, saved) ==
    IF saved THEN r ELSE RunRaise("save_intermediate")

\* Lines 51-71: run is called; the output directories are created and
\* extract is awaited.
VisualRun(ok) ==
    /\ run.pc = "idle"
    /\ run' = IF ok THEN [run EXCEPT !.pc = "extract"]
              ELSE RunRaise("initialize")
    /\ UNCHANGED <<parallel_scenes, expanded_scenes, visual_results,
                   intermediates, manifest>>
    /\ UNCHANGED offVisual

\* Lines 71-85: extract returns or raises; the extraction is saved and
\* expand is awaited.
ExtractEnd(out, saved) ==
    /\ run.pc = "extract"
    /\ out = "failed" => saved = FALSE
    /\ IF out = "failed"
       THEN /\ run' = RunRaise("extract")
            /\ UNCHANGED intermediates
       ELSE /\ run' = SaveIntermediate([run EXCEPT !.pc = "expand"], saved)
            /\ intermediates' = IF saved
                                THEN intermediates \cup {"extraction"}
                                ELSE intermediates
    /\ UNCHANGED <<parallel_scenes, expanded_scenes, visual_results, manifest>>
    /\ UNCHANGED offVisual

\* Lines 127-134: an exception among the results becomes {"error": ...};
\* every other entry is kept as it is.
cleaned(r) == IF r.st = "exception" THEN Entry("error", -1) ELSE r

\* Lines 127-162: the exceptions among the results are replaced by error
\* entries, the manifest is built and save_manifest is called; its
\* exception leaves run, else run returns the manifest.
BuildManifest(results, written) ==
    /\ manifest' = Manifest(IF written THEN "saved" ELSE "built",
                            [i \in DOMAIN results |-> cleaned(results[i])])
    /\ run' = IF written THEN [run EXCEPT !.pc = "returned"]
              ELSE RunRaise("save_manifest")

\* Lines 93-125: of n calls of generate_visuals, those started first: all
\* of them by the gather of line 107, else the first of the loop.
FirstVisuals(n) == IF parallel_scenes THEN 1..n ELSE 1..n \cap {1}

\* Lines 85-107: expand returns n scenes or raises; the expanded scenes are
\* saved and the generation of the visuals starts.
ExpandEnd(out, n, saved, written) ==
    /\ run.pc = "expand"
    /\ out = "failed" => n = 0 /\ saved = FALSE
    /\ (out = "failed" \/ ~saved \/ n > 0) => written = FALSE
    /\ IF out = "failed"
       THEN /\ run' = RunRaise("expand")
            /\ UNCHANGED <<expanded_scenes, visual_results, intermediates,
                           manifest>>
       ELSE /\ expanded_scenes' = n
            /\ intermediates' = IF saved
                                THEN intermediates \cup {"expanded_scenes"}
                                ELSE intermediates
            /\ IF SaveIntermediate(run, saved).pc = "raised"
               THEN /\ run' = SaveIntermediate(run, saved)
                    /\ UNCHANGED <<visual_results, manifest>>
               ELSE /\ visual_results' =
                          [i \in 1..n |-> IF i \in FirstVisuals(n)
                                          THEN Entry("issued", -1)
                                          ELSE Entry("none", -1)]
                    /\ IF n = 0 THEN BuildManifest(<<>>, written)
                       ELSE /\ run' = [run EXCEPT !.pc = "generate"]
                            /\ UNCHANGED manifest
    /\ UNCHANGED parallel_scenes
    /\ UNCHANGED offVisual

VisualOutcomes == {"result", "error"}

\* What visual_results keeps of the call for scene i (idx = i - 1 of
\* enumerate).  Its result (visual_agent.py:83) carries scene_index.  Its
\* exception is kept as it is by the gather of line 107, and is replaced by
\* {"scene_index": idx, "error": ...} in the loop (lines 123-125).
Kept(i, out) ==
    IF out = "result" THEN Entry("result", i - 1)
    ELSE IF parallel_scenes THEN Entry("exception", -1)
         ELSE Entry("error", i - 1)

\* generate_visuals of scene i returns or raises (lines 107-125): its
\* result or its exception is kept; in sequential mode the next scene
\* starts; after the last the manifest is built and saved.
VisualEnd(i, out, written) ==
    /\ run.pc = "generate"
    /\ i \in DOMAIN visual_results
    /\ visual_results[i].st = "issued"
    /\ LET r1 == [visual_results EXCEPT ![i] = Kept(i, out)]
           r2 == IF ~parallel_scenes /\ i < Len(r1)
                 THEN [r1 EXCEPT ![i + 1] = Entry("issued", -1)] ELSE r1
           all == \A k \in DOMAIN r2 : r2[k].st \notin {"none", "issued"}
       IN
       /\ visual_results' = r2
       /\ IF all THEN BuildManifest(r2, written)
          ELSE /\ written = FALSE
               /\ UNCHANGED <<run, manifest>>
    /\ UNCHANGED <<parallel_scenes, expanded_scenes, intermediates>>
    /\ UNCHANGED offVisual

VisualNext ==
    \/ \E ok \in BOOLEAN : VisualRun(ok)
    \/ \E out \in RequestOutcomes, saved \in BOOLEAN : ExtractEnd(out, saved)
    \/ \E out \in RequestOutcomes, n \in 0..MaxVisualScenes,
          saved \in BOOLEAN, written \in BOOLEAN :
          ExpandEnd(out, n, saved, written)
    \/ \E i \in 1..MaxVisualScenes, out \in VisualOutcomes,
          written \in BOOLEAN : VisualEnd(i, out, written)

\* min and max of Python, of the numbers of a set.
Min(S) == CHOOSE x \in S : \A y \in S : x <= y

Max(S) == CHOOSE x \in S : \A y \in S : x >= y

\* ==== TokenBucketRateLimiter, llm/rate_limiter.py =============================
\* Time is counted in ticks, TicksPerMinute of them in a minute, and the two
\* buckets in TicksPerMinute-ths of a token, so that the refill of a tick,
\* rate / TicksPerMinute tokens, is a whole number.
Acquirers == {"t1", "t2"}

OneToken == TicksPerMinute

\* Lines 15-27: the constructor; both buckets start full.
TokenBucketRateLimiter(requests_per_minute, tokens_per_minute, timeout, now) ==
    [rpm |-> requests_per_minute, tpm |-> tokens_per_minute,
     request_tokens |-> requests_per_minute * OneToken,
     token_tokens |-> tokens_per_minute * OneToken,
     last_refill |-> now, acquire_timeout |-> timeout]

\* The token counts acquire is called with: none, a full TPM bucket, and
\* more than a TPM bucket ever holds.
TokenCounts == {0, MaxRate, MaxTokenCount}

NotAcquiring == [pc |-> "idle", start |-> 0, token_count |-> 0]

\* Nothing taken and nothing refilled yet.
NoLedger == [acquired |-> 0, taken |-> 0, refilled_requests |-> 0,
             refilled_tokens |-> 0]

\* The ledger after one pass through the locked block of acquire: what
\* _refill added to the buckets of l, and what the call took if it returned.
Booked(led, l, filled, after, returned) ==
    [acquired |-> led.acquired + IF returned THEN 1 ELSE 0,
     taken |-> led.taken + (filled.token_tokens - after.token_tokens),
     refilled_requests |-> led.refilled_requests +
                              (filled.request_tokens - l.request_tokens),
     refilled_tokens |-> led.refilled_tokens +
                            (filled.token_tokens - l.token_tokens)]

LimiterInit ==
    /\ monotonic = 0
    /\ limiter \in {TokenBucketRateLimiter(r, t, o, 0) :
                       r \in 1..MaxRate, t \in {0, MaxRate}, o \in 0..MaxTimeout}
    /\ acquiring = [t \in Acquirers |-> NotAcquiring]
    /\ ledger = NoLedger

LimiterOff ==
    /\ monotonic = 0
    /\ limiter = TokenBucketRateLimiter(1, 0, 0, 0)
    /\ acquiring = [t \in Acquirers |-> NotAcquiring]
    /\ ledger = NoLedger

\* _refill without the caps of lines 35 and 42.
refill_uncapped(l, now) ==
    LET elapsed == now - l.last_refill
    IN [l EXCEPT !.last_refill = now,
                 !.request_tokens = @ + elapsed * l.rpm,
                 !.token_tokens = IF l.tpm # 0 THEN @ + elapsed * l.tpm ELSE @]

\* Lines 29-45: _refill at the reading now of the clock.
refill(l, now) ==
    LET elapsed == now - l.last_refill
    IN [l EXCEPT !.last_refill = now,
                 !.request_tokens = Min({l.rpm * OneToken, @ + elapsed * l.rpm}),
                 !.token_tokens = IF l.tpm # 0
                                  THEN Min({l.tpm * OneToken, @ + elapsed * l.tpm})
                                  ELSE @]

\* Lines 62-65.
has_request(l) == l.request_tokens >= OneToken

has_tokens(l, token_count) ==
    l.tpm = 0 \/ l.token_tokens >= token_count * OneToken

\* The request token taken as soon as there is one.
TakeEager(l, token_count) ==
    IF has_request(l)
    THEN [l EXCEPT !.request_tokens = @ - OneToken,
                   !.token_tokens = IF has_tokens(l, token_count) /\ l.tpm # 0
                                    THEN @ - token_count * OneToken ELSE @]
    ELSE l

\* Lines 66-69: the buckets after the test of line 66.
Take(l, token_count) ==
    IF has_request(l) /\ has_tokens(l, token_count)
    THEN [l EXCEPT !.request_tokens = @ - OneToken,
                   !.token_tokens = IF l.tpm # 0 /\ token_count # 0
                                    THEN @ - token_count * OneToken ELSE @]
    ELSE l

\* The clock moves on.
LimiterTick ==
    /\ monotonic < MaxClock
    /\ monotonic' = monotonic + 1
    /\ UNCHANGED <<limiter, acquiring, ledger>>
    /\ UNCHANGED offLimiter

\* Line 52: a task calls acquire(token_count); start is read.  A call starts
\* while its timeout can still run out before the last tick.
acquire(t, token_count) ==
    /\ acquiring[t].pc \in {"idle", "returned", "raised"}
    /\ monotonic + MaxTimeout < MaxClock
    /\ acquiring' = [acquiring EXCEPT ![t] =
           [pc |-> "loop", start |-> monotonic, token_count |-> token_count]]
    /\ UNCHANGED <<limiter, monotonic, ledger>>
    /\ UNCHANGED offLimiter

\* Lines 53-59: the top of the loop: TimeoutError once more than
\* acquire_timeout has elapsed since start.
LoopTop(t) ==
    /\ acquiring[t].pc = "loop"
    /\ LET elapsed == monotonic - acquiring[t].start
       IN acquiring' = [acquiring EXCEPT ![t].pc =
              IF elapsed > limiter.acquire_timeout THEN "raised" ELSE "locked"]
    /\ UNCHANGED <<limiter, monotonic, ledger>>
    /\ UNCHANGED offLimiter

\* Lines 60-70: under the lock, with no await inside: refill, test, and
\* either take the tokens and return, or leave the block to sleep.
Attempt(t) ==
    /\ acquiring[t].pc = "locked"
    /\ LET filled == refill(limiter, monotonic)
           n == acquiring[t].token_count
       IN /\ limiter' = Take(filled, n)
          /\ acquiring' = [acquiring EXCEPT ![t].pc =
                 IF has_request(filled) /\ has_tokens(filled, n)
                 THEN "returned" ELSE "sleeping"]
          /\ ledger' = Booked(ledger, limiter, filled, Take(filled, n),
                              has_request(filled) /\ has_tokens(filled, n))
    /\ UNCHANGED monotonic
    /\ UNCHANGED offLimiter

\* Line 71: asyncio.sleep(0.1) ends.
Wake(t) ==
    /\ acquiring[t].pc = "sleeping"
    /\ acquiring' = [acquiring EXCEPT ![t].pc = "loop"]
    /\ UNCHANGED <<limiter, monotonic, ledger>>
    /\ UNCHANGED offLimiter

LimiterNext ==
    \/ LimiterTick
    \/ \E t \in Acquirers, n \in TokenCounts : acquire(t, n)
    \/ \E t \in Acquirers : LoopTop(t)
    \/ \E t \in Acquirers : Attempt(t)
    \/ \E t \in Acquirers : Wake(t)

\* ==== EmotionalStateMachine, agents/character/emotional_state.py ============
\* Line 186: event_severity is on a scale of 1 to 10.
MaxSeverity == 10

Severities == 1..MaxSeverity

\* Lines 99-106: TYPE_VOLATILITY, in tenths.
TYPE_VOLATILITY ==
    [protagonist |-> 12, antagonist |-> 8, mentor |-> 6, sidekick |-> 13,
     threshold_guardian |-> 7, supporting |-> 10]

\* The character types: those of TYPE_VOLATILITY and one that is not there.
CharacterTypes == DOMAIN TYPE_VOLATILITY \cup {"villain"}

\* Lines 112-115: the volatility of a character type, in tenths.
volatility(ctype) ==
    IF ctype \in DOMAIN TYPE_VOLATILITY THEN TYPE_VOLATILITY[ctype] ELSE 10

\* The state names record_transition is called with, and str.lower on them.
StateNames == {"Calm", "anxious"}

lower(name) == IF name = "Calm" THEN "calm" ELSE name

\* Lines 82-92.
EmotionalTransition(from_state, to_state, trigger_type, intensity_change) ==
    [from_state |-> from_state, to_state |-> to_state,
     trigger_type |-> trigger_type, intensity_change |-> intensity_change]

NoAnswer ==
    [op |-> "none", count |-> 0, event_severity |-> 0, is_positive |-> FALSE,
     transitions |-> <<>>, change |-> 0]

EmotionInit ==
    /\ character_type \in CharacterTypes
    /\ transition_history = <<>>
    /\ answer = NoAnswer

EmotionOff ==
    /\ character_type = "supporting"
    /\ transition_history = <<>>
    /\ answer = NoAnswer

\* Lines 156-173.
record_transition(from_state, to_state) ==
    /\ Len(transition_history) < MaxHistory
    /\ transition_history' = Append(transition_history,
           EmotionalTransition(lower(from_state), lower(to_state), "event", 0))
    /\ UNCHANGED <<character_type, answer>>
    /\ UNCHANGED offEmotion

\* seq[start:] of Python: a negative start counts from the end and is
\* clipped at the first element; -0 is 0.
SliceFrom(seq, start) ==
    LET from == IF start < 0 THEN Max({Len(seq) + start, 0})
                ELSE Min({start, Len(seq)})
    IN SubSeq(seq, from + 1, Len(seq))

\* Lines 175-177.
get_recent_transitions(count) ==
    /\ answer' = [NoAnswer EXCEPT !.op = "get_recent_transitions",
                                  !.count = count,
                                  !.transitions =
                                      SliceFrom(transition_history, 0 - count)]
    /\ UNCHANGED <<character_type, transition_history>>
    /\ UNCHANGED offEmotion

\* Lines 189-193: int() of a product that is not negative is its floor.
intensity_change(ctype, event_severity, is_positive) ==
    LET base_change == event_severity \div 2
        adjusted == (base_change * volatility(ctype)) \div 10
    IN Max({-5, Min({5, IF is_positive THEN adjusted ELSE 0 - adjusted})})

\* Lines 179-193.
compute_intensity_change(event_severity, is_positive) ==
    /\ answer' = [NoAnswer EXCEPT !.op = "compute_intensity_change",
                                  !.event_severity = event_severity,
                                  !.is_positive = is_positive,
                                  !.change = intensity_change(character_type,
                                                 event_severity, is_positive)]
    /\ UNCHANGED <<character_type, transition_history>>
    /\ UNCHANGED offEmotion

EmotionNext ==
    \/ \E f \in StateNames, t \in StateNames : record_transition(f, t)
    \/ \E count \in 0..MaxCount : get_recent_transitions(count)
    \/ \E sev \in Severities, pos \in BOOLEAN :
          compute_intensity_change(sev, pos)

\* ---- the event log: get_event_log and clear_log, bus.py lines 114-129 ----
\* Lines 114-125: the log, filtered by the event type and by the chapter
\* when they are given ("none" and 0 are None, as in the events).
get_event_log(event_type, chapter) ==
    LET OfType(e) == e.event_type = event_type
        OfChapter(e) == e.chapter_number = chapter
        byType == IF event_type # "none"
                  THEN SelectSeq(event_log, OfType) ELSE event_log
    IN IF chapter # 0 THEN SelectSeq(byType, OfChapter) ELSE byType

\* Lines 127-129: clear_log empties the log (an empty log is left out: the
\* call changes nothing).
clear_log ==
    /\ event_log # <<>>
    /\ event_log' = <<>>
    /\ UNCHANGED <<busTables, response_futures, future, call, stack, nextId,
                   expired, created, disp, delivered, completed, raised,
                   setResults, mwSeen>>
    /\ UNCHANGED offBus

\* ---- the events of one run of generate_chapter, chapter.py 140-412 -------
\* The requests of a run as events on the bus: each request of the run is
\* published once (one review round), and the agent it names answers with
\* create_response.  The scene indices of the model are 1, 2 (0 is None).
ChapterNumbers == 1..MaxChapter

ReviewKinds == CheckKinds \cup {"revision"}

RunRequests == {i \in RequestIds : i[2] <= MaxRunScenes}

\* The event type of the request of a kind, and the type its agent answers
\* with (agents/plot.py, world.py, writing.py, character/agent.py).
RequestType(kind) ==
    CASE kind = "plan" -> "chapter_plan_request"
      [] kind = "setting" -> "setting_validation_request"
      [] kind = "reaction" -> "character_reaction_request"
      [] kind = "compose" -> "scene_draft_request"
      [] kind = "consistency" -> "consistency_check_request"
      [] kind = "quality" -> "quality_check_request"
      [] kind = "revision" -> "revision_request"

ResponseType(kind) ==
    CASE kind = "plan" -> "chapter_plan_ready"
      [] kind = "setting" -> "setting_validation_result"
      [] kind = "reaction" -> "character_reaction"
      [] kind = "compose" -> "scene_draft_ready"
      [] kind = "consistency" -> "consistency_check_result"
      [] kind = "quality" -> "quality_check_result"
      [] kind = "revision" -> "revision_ready"

\* The agent a request names.
TargetAgent(kind) ==
    CASE kind \in {"plan", "quality"} -> "plot"
      [] kind \in {"setting", "consistency"} -> "world"
      [] kind = "reaction" -> "character"
      [] kind \in {"compose", "revision"} -> "writer"

\* Lines 142-151, 192-199, 219-230, 312-324: the plan, setting, reaction
\* and composition events are constructed with chapter_number (and, but
\* for the plan, with scene_index).
StageEvent(id, i, N) ==
    [Event(id, RequestType(i[1]), TargetAgent(i[1]), 0, N)
        EXCEPT !.scene_index = i[2]]

ReviewEventNumbered(id, i, N) ==
    Event(id, RequestType(i[1]), TargetAgent(i[1]), 0, N)

\* Lines 345-353, 356-364, 396-404: the check and revision events are
\* constructed without chapter_number and scene_index.
ReviewEvent(id, i, N) ==
    Event(id, RequestType(i[1]), TargetAgent(i[1]), 0, 0)

RequestEvent(id, i, N) ==
    IF i[1] \in ReviewKinds THEN ReviewEvent(id, i, N)
                            ELSE StageEvent(id, i, N)

RunInit ==
    /\ chapter_number \in ChapterNumbers
    /\ requested = [i \in RequestIds |-> 0]

\* No run is followed.
RunOff ==
    /\ chapter_number = 1
    /\ requested = [i \in RequestIds |-> 0]

\* Request i was published, and its answer was.
Published(i) == requested[i] # 0

Answered(i) ==
    /\ Published(i)
    /\ \E k \in 1..Len(event_log) :
          event_log[k].correlation_id = requested[i]

\* What generate_chapter awaits before it issues request i: the reply of
\* the plan before the scenes (lines 100-113), the setting and the
\* gathered reactions of a scene before its composition (170-183), every
\* scene before the checks (113-118), both checks before the revision
\* (367-405).  A reaction that fails is left out (237-251): it need not
\* be answered.
AwaitedBefore(i) ==
    CASE i[1] = "plan" -> {}
      [] i[1] \in {"setting", "reaction"} -> {Request("plan", 0, 0)}
      [] i[1] = "compose" -> {Request("setting", i[2], 0)}
      [] i[1] \in CheckKinds ->
            {Request("compose", s, 0) : s \in 1..MaxRunScenes}
      [] i[1] = "revision" -> Checks

IssuedBefore(i) ==
    IF i[1] = "compose"
    THEN {Request("reaction", i[2], j) : j \in 1..MaxParticipants}
    ELSE {}

busRest == <<subscribers, directed_handlers, middleware, response_futures,
             future, call, stack, expired, created, disp, delivered,
             completed, raised, setResults, mwSeen, lastRegistered>>

\* bus.request(event) of the pipeline: the event is constructed and
\* publish logs it (bus.py line 50).
bus_request(i) ==
    /\ ~Published(i)
    /\ \A b \in AwaitedBefore(i) : Answered(b)
    /\ \A b \in IssuedBefore(i) : Published(b)
    /\ event_log' = Append(event_log, RequestEvent(nextId, i, chapter_number))
    /\ requested' = [requested EXCEPT ![i] = nextId]
    /\ nextId' = nextId + 1
    /\ UNCHANGED <<chapter_number, busRest>>
    /\ UNCHANGED offRun

\* The handler of the agent returns event.create_response(...), which
\* publish publishes in turn (bus.py lines 77-79) and so logs.
handle_event(i) ==
    /\ Published(i)
    /\ ~Answered(i)
    /\ \E k \in 1..Len(event_log) :
          /\ event_log[k].event_id = requested[i]
          /\ event_log' = Append(event_log,
                 create_response(event_log[k], nextId, ResponseType(i[1])))
    /\ nextId' = nextId + 1
    /\ UNCHANGED <<chapter_number, requested, busRest>>
    /\ UNCHANGED offRun

RunNext ==
    \/ \E i \in RunRequests : bus_request(i)
    \/ \E i \in RunRequests : handle_event(i)

\* ---- PipelineTracker, pipeline/stages.py ---------------------------------
\* The readings of the clock are 1, 2, ...; a time of 0 is None, and so
\* are an output and an error of "None".
StageNames == {"plan", "review"}

StageOutputs == {"None", "text"}

StageErrors == {"boom"}

\* Lines 19-28: a StageResult with the defaults of its fields.
StageResult(stage_name, status, started_at) ==
    [stage_name |-> stage_name, status |-> status, started_at |-> started_at,
     completed_at |-> 0, output |-> "None", error |-> "None"]

\* Lines 30-34: the duration, in readings of the clock; -1 is None.
duration_seconds(self) ==
    IF self.started_at # 0 /\ self.completed_at # 0
    THEN self.completed_at - self.started_at
    ELSE -1

\* Lines 40-41.
TrackerInit ==
    /\ stages = <<>>
    /\ utcnow = 1

\* The tracker where it is not run.
TrackerOff ==
    /\ stages = <<>>
    /\ utcnow = 1

\* Lines 43-50: a running stage is appended (and returned: the callers
\* hold the results by their place in _stages).
start_stage(name) ==
    /\ Len(stages) < MaxStages
    /\ stages' = Append(stages, StageResult(name, "running", utcnow))
    /\ UNCHANGED utcnow
    /\ UNCHANGED offTracker

\* Lines 55-57.
Completed(result, output) ==
    [result EXCEPT !.status = "completed", !.completed_at = utcnow,
                   !.output = output]

\* Lines 60-62.
Failed(result, error) ==
    [result EXCEPT !.status = "failed", !.completed_at = utcnow,
                   !.error = error]

\* Lines 52-57: complete_stage on the result start_stage returned k-th.
complete_stage(k, output) ==
    /\ k \in 1..Len(stages)
    /\ stages' = [stages EXCEPT ![k] = Completed(stages[k], output)]
    /\ UNCHANGED utcnow
    /\ UNCHANGED offTracker

\* Lines 59-62: fail_stage on the result start_stage returned k-th.
fail_stage(k, error) ==
    /\ k \in 1..Len(stages)
    /\ stages' = [stages EXCEPT ![k] = Failed(stages[k], error)]
    /\ UNCHANGED utcnow
    /\ UNCHANGED offTracker

\* Time passes between two calls.
TrackerTick ==
    /\ utcnow < MaxNow
    /\ utcnow' = utcnow + 1
    /\ UNCHANGED stages
    /\ UNCHANGED offTracker

TrackerNext ==
    \/ \E name \in StageNames : start_stage(name)
    \/ \E k \in 1..MaxStages, output \in StageOutputs : complete_stage(k, output)
    \/ \E k \in 1..MaxStages, error \in StageErrors : fail_stage(k, error)
    \/ TrackerTick

\* ==== the specifications ====================================================
\* The bus, with the pipeline and the name resolution at rest.
Init == BusInit /\ PipelineOff /\ ResolveOff /\ VisualOff /\ LimiterOff
    /\ EmotionOff /\ RunOff /\ TrackerOff

Next ==
    \/ \E t \in EventTypes, h \in Handlers : subscribe(t, h)
    \/ \E a \in Agents, h \in Handlers : subscribe_directed(a, h)
    \/ \E m \in Middlewares : add_middleware(m)
    \/ \E c \in Calls, ty \in RequestTypes, tgt \in Agents \cup {""},
          corr \in KnownCorr : CallPublish(c, ty, tgt, corr)
    \/ \E c \in Calls, ty \in RequestTypes, tgt \in Agents \cup {""} :
          CallRequest(c, ty, tgt)
    \/ \E c \in Calls : RunMiddleware(c)
    \/ \E c \in Calls : Dispatch(c)
    \/ \E c \in Calls, out \in Outcomes : DirectedHandlerDone(c, out)
    \/ \E c \in Calls, i \in 1..MaxSubscribers, out \in Outcomes :
          BroadcastHandlerDone(c, i, out)
    \/ \E c \in Calls : BroadcastResults(c)
    \/ \E c \in Calls : RequestReturn(c)
    \/ \E c \in Calls : RequestTimeout(c)
    \/ \E c \in Calls : Elapse(c)

Spec == Init /\ [][Next]_vars

\* The bus with every operation of its log: the calls of Next and clear_log.
LogNext ==
    \/ Next
    \/ clear_log

LogSpec == Init /\ [][LogNext]_vars

\* One run of the chapter pipeline, with the bus and the name resolution
\* at rest.
PipelineStart == BusInit /\ PipelineInit /\ ResolveOff /\ VisualOff /\ LimiterOff
    /\ EmotionOff /\ RunOff /\ TrackerOff

PipelineSpec == PipelineStart /\ [][PipelineNext]_vars

\* The resolution of one scene plan, with the bus and the pipeline at rest.
ResolveStart == BusInit /\ PipelineOff /\ ResolveInit /\ VisualOff /\ LimiterOff
    /\ EmotionOff /\ RunOff /\ TrackerOff

ResolveSpec == ResolveStart /\ [][ResolveNext]_vars

\* One run of the visual pipeline, with the rest at rest.
VisualStart == BusInit /\ PipelineOff /\ ResolveOff /\ VisualInit /\ LimiterOff
    /\ EmotionOff /\ RunOff /\ TrackerOff

VisualSpec == VisualStart /\ [][VisualNext]_vars

\* The rate limiter with its acquiring tasks, the rest at rest.  The clock
\* moves on and the event loop runs every task that can run.
LimiterStart ==
    BusInit /\ PipelineOff /\ ResolveOff /\ VisualOff /\ LimiterInit
    /\ EmotionOff /\ RunOff /\ TrackerOff

LimiterSpec ==
    /\ LimiterStart
    /\ [][LimiterNext]_vars
    /\ WF_vars(LimiterTick)
    /\ \A t \in Acquirers : WF_vars(LoopTop(t) \/ Attempt(t) \/ Wake(t))

\* One emotional state machine, the rest at rest.
EmotionStart ==
    BusInit /\ PipelineOff /\ ResolveOff /\ VisualOff /\ LimiterOff
    /\ EmotionInit /\ RunOff /\ TrackerOff

EmotionSpec == EmotionStart /\ [][EmotionNext]_vars

\* The events of one run of generate_chapter on the bus, the rest at rest.
RunStart ==
    BusInit /\ PipelineOff /\ ResolveOff /\ VisualOff /\ LimiterOff
    /\ EmotionOff /\ RunInit /\ TrackerOff

RunSpec == RunStart /\ [][RunNext]_vars

\* One PipelineTracker and its clock, the rest at rest.
TrackerStart ==
    BusInit /\ PipelineOff /\ ResolveOff /\ VisualOff /\ LimiterOff
    /\ EmotionOff /\ RunOff /\ TrackerInit

TrackerSpec == TrackerStart /\ [][TrackerNext]_vars

TypeOK ==
    /\ nextId \in 1..(MaxEvents + 1)
    /\ Len(middleware) <= MaxMiddleware
    /\ Subscriptions <= MaxSubscribers
    /\ \A c \in Calls : call[c].pc \in
           {"idle", "publishing", "wait", "returned", "timeout", "error"}

\* ---- properties -----------------------------------------------------------
IsRequest(c) == call[c].op = "request"
IdOf(c) == call[c].ev.event_id

Logged(i) == \E k \in DOMAIN event_log : event_log[k].event_id = i

\* The events accepted by publish that carry correlation_id x, in log order.
Answers(x) == SelectSeq(event_log, LAMBDA e : e.correlation_id = x)

\* Event i reached line 50 of publish.
Dispatched(i) ==
    disp[i].branch \in {"resolved", "stale", "directed", "broadcast"}

NotDelivered(i) == \A h \in Handlers, m \in Modes : delivered[<<i, h, m>>] = 0

\* The agent event i is directed at has a handler.
TargetRegistered(i) ==
    /\ created[i].ev.target_agent # ""
    /\ lastRegistered[created[i].ev.target_agent] # ""

\* Event i went to the handler registered last for its target, once, and to
\* no other handler.
DeliveredDirected(i) ==
    /\ disp[i].branch = "directed"
    /\ \A h \in Handlers :
          /\ delivered[<<i, h, "directed">>] =
                IF h = lastRegistered[created[i].ev.target_agent] THEN 1 ELSE 0
          /\ delivered[<<i, h, "broadcast">>] = 0

\* Event i went to every subscription of its type and to no directed handler.
DeliveredBroadcast(i) ==
    /\ disp[i].branch = "broadcast"
    /\ \A h \in Handlers :
          /\ delivered[<<i, h, "broadcast">>] =
                Occurrences(subscribers[created[i].ev.event_type], h)
          /\ delivered[<<i, h, "directed">>] = 0

\* The normal rules of dispatch: lines 62-80.
NormalDispatch(i) ==
    IF TargetRegistered(i) THEN DeliveredDirected(i) ELSE DeliveredBroadcast(i)

\* The publish call a client made for its event i has returned normally.
PublishReturned(i) ==
    \E c \in Calls :
        /\ IdOf(c) = i
        /\ \/ call[c].op = "publish" /\ call[c].pc = "returned"
           \/ IsRequest(c) /\ call[c].pc \in {"wait", "returned", "timeout"}

\* Every handler started for event i has ended, and every response the
\* handlers returned for it has been through publish.
HandlersJoined(i) ==
    /\ \A h \in Handlers, m \in Modes :
          completed[<<i, h, m>>] = delivered[<<i, h, m>>]
    /\ \A r \in Ids :
          created[r].by = "handler" /\ created[r].ev.correlation_id = i
             => disp[r].branch # "unpublished"

\* C1: a pending future is resolved at most once, by an event whose
\* correlation_id is the id of its request, namely the first such event that
\* publish accepted; what request returns is that event.
C1_ResolvedOnceByFirstReply ==
    \A c \in Calls : IsRequest(c) =>
        /\ setResults[c] <= 1
        /\ future[c].done =>
              /\ setResults[c] = 1
              /\ future[c].result.correlation_id = IdOf(c)
              /\ future[c].result = Answers(IdOf(c))[1]
        /\ call[c].pc = "returned" =>
              future[c].done /\ call[c].result = future[c].result

\* Two requests were pending together; one has returned its reply while the
\* future of the other is still pending.
C1_Witness ==
    \E c, d \in Calls :
        /\ c # d /\ IsRequest(c) /\ IsRequest(d)
        /\ call[c].pc = "returned"
        /\ ~future[d].done /\ response_futures[IdOf(d)] = d

\* C2: once a call of request has ended (result, timeout or exception), the
\* pending-request table has no entry for its event.
C2_NoEntryAfterRequest ==
    \A c \in Calls : IsRequest(c) /\ Ended(c) => response_futures[IdOf(c)] = ""

\* C3: when the timeout of a request has run out since the call and no event
\* answering it has been published, the request is not waiting on: it is not
\* still inside publish, waiting for a handler.
C3_TimeoutBoundsRequest ==
    \A c \in Calls :
        IsRequest(c) /\ expired[c] /\ Answers(IdOf(c)) = <<>>
            => call[c].pc # "publishing"

\* C4: an event that answers a request that has ended resolves nothing and is
\* dispatched by the normal rules.
C4_LateReplyDispatched ==
    \A i \in Ids : Dispatched(i) /\ disp[i].req = "ended" => NormalDispatch(i)

\* C5: an event that answers a request whose future is already resolved is
\* dispatched by the normal rules, whether or not the request has removed
\* its table entry.
C5_SecondReplyDispatched ==
    \A i \in Ids : Dispatched(i) /\ disp[i].fdone => NormalDispatch(i)

\* C6: an event whose correlation_id matches an entry of the pending-request
\* table is passed to no handler; it resolves the future or does nothing.
C6_MatchedNeverDelivered ==
    \A i \in Ids : disp[i].matched =>
        /\ NotDelivered(i)
        /\ disp[i].branch \in {"resolved", "stale"}

\* An event that matched a pending request while its target had a directed
\* handler or its type had subscribers.
C6_Witness ==
    \E i \in Ids :
        /\ disp[i].matched
        /\ \/ TargetRegistered(i)
           \/ subscribers[created[i].ev.event_type] # <<>>

\* C7: an event that matches no pending request and is directed at an agent
\* with a handler goes to the handler registered last for that agent,
\* exactly once, and to no broadcast subscriber.
C7_DirectedExactlyOnce ==
    \A i \in Ids :
        Dispatched(i) /\ ~disp[i].matched /\ TargetRegistered(i)
            => DeliveredDirected(i)

\* A directed event whose type has subscribers has been delivered, and its
\* handler has ended.
C7_Witness ==
    \E i \in Ids, h \in Handlers :
        /\ disp[i].branch = "directed"
        /\ completed[<<i, h, "directed">>] = 1
        /\ subscribers[created[i].ev.event_type] # <<>>

\* C8: an event without target and correlation_id that passes the middleware
\* has every handler subscribed to its type started, once per subscription,
\* when the first of them is awaited; the publish call returns only when all
\* of them have ended and their responses have been published.
C8_BroadcastStartsAllAndJoins ==
    \A i \in Ids :
        /\ Dispatched(i)
        /\ created[i].ev.target_agent = ""
        /\ created[i].ev.correlation_id = 0
        => /\ DeliveredBroadcast(i)
           /\ PublishReturned(i) => HandlersJoined(i)

\* A broadcast to two subscriptions has returned after a handler's response
\* was published.
C8_Witness ==
    \E i \in Ids :
        /\ disp[i].branch = "broadcast"
        /\ created[i].ev.target_agent = ""
        /\ created[i].ev.correlation_id = 0
        /\ Len(subscribers[created[i].ev.event_type]) = 2
        /\ PublishReturned(i)
        /\ \E r \in Ids : created[r].ev.correlation_id = i
                          /\ created[r].by = "handler"

\* C9: the exception of a handler never leaves publish, so no call ends with
\* it and a request whose handler raised ends with the timeout error, after
\* its timeout; after a broadcast in which a handler raised, the other
\* handlers have ended and their responses have been published.
C9_HandlerFaultContained ==
    /\ \A c \in Calls :
          /\ call[c].cause # "handler"
          /\ call[c].pc = "timeout" => expired[c]
          /\ IsRequest(c) /\ Ended(c) /\ IdOf(c) \in raised
             /\ Answers(IdOf(c)) = <<>>
                => call[c].pc = "timeout" \/ call[c].cause = "middleware"
    /\ \A i \in raised : PublishReturned(i) => HandlersJoined(i)

\* A request whose handler raised has ended with the timeout error.
C9_Witness ==
    \E c \in Calls :
        IsRequest(c) /\ IdOf(c) \in raised /\ call[c].pc = "timeout"

\* The result of the k-th middleware call made for event i.
MwResult(i, k) == MwApply(mwSeen[i][k].mw, mwSeen[i][k].input)

\* C10: the middleware run in the order they were added, each on the event
\* the previous one returned; after one returns nothing no later one runs,
\* the event is not logged, reaches no handler, resolves no future, and
\* publish returns without error; an event that is dispatched has been
\* through the whole chain.
C10_MiddlewareChain ==
    \A i \in Ids : created[i].by # "none" =>
        LET n == Len(mwSeen[i]) IN
        /\ n <= Len(middleware)
        /\ \A k \in 1..n :
              /\ mwSeen[i][k].mw = middleware[k]
              /\ mwSeen[i][k].input =
                    IF k = 1 THEN created[i].ev ELSE MwResult(i, k - 1).ev
              /\ k < n => MwResult(i, k).st = "event"
        /\ (n > 0 /\ MwResult(i, n).st = "none") =>
              /\ disp[i].branch = "dropped"
              /\ ~Logged(i)
              /\ NotDelivered(i)
              /\ \A c \in Calls :
                    /\ future[c].result.event_id # i
                    /\ IdOf(c) = i => call[c].pc # "error"
        /\ Dispatched(i) =>
              /\ n = Len(middleware)
              /\ \E k \in DOMAIN event_log :
                    event_log[k] = IF n = 0 THEN created[i].ev
                                   ELSE MwResult(i, n).ev

\* The reply to a request was dropped by the first of two middleware, the
\* second did not run, and the request has ended with the timeout error.
C10_Witness ==
    \E c \in Calls, i \in Ids :
        /\ IsRequest(c) /\ call[c].pc = "timeout"
        /\ created[i].ev.correlation_id = IdOf(c)
        /\ disp[i].branch = "dropped"
        /\ Len(middleware) = 2 /\ Len(mwSeen[i]) = 1

\* The event with id i as publish logged it and passed it to the handlers.
LoggedAs(i) ==
    event_log[CHOOSE k \in DOMAIN event_log : event_log[k].event_id = i]

\* Event i was passed to a handler.
Delivered(i) == \E h \in Handlers, m \in Modes : delivered[<<i, h, m>>] > 0

\* C11: an event made by create_response carries as correlation_id the id of
\* the event it answers, that event's chapter_number and scene_index, no
\* target, and an id of its own; publish logs and delivers every event with
\* the correlation_id it was constructed with, so an event without one has
\* none after dispatch.
C11_ResponseCorrelation ==
    /\ \A r \in Ids : created[r].by = "handler" =>
          LET re == created[r].ev
              p == re.correlation_id
          IN
          /\ p \in Ids /\ Logged(p) /\ Delivered(p)
          /\ re.event_id = r /\ r # p
          /\ re.chapter_number = LoggedAs(p).chapter_number
          /\ re.scene_index = LoggedAs(p).scene_index
          /\ re.target_agent = ""
    /\ \A k \in DOMAIN event_log :
          event_log[k].correlation_id =
              created[event_log[k].event_id].ev.correlation_id

\* A handler has answered an event of the second scene that a middleware
\* had marked with a chapter_number, and an event published without
\* correlation_id has been delivered to a handler.
C11_Witness ==
    \E r \in Ids :
        /\ created[r].by = "handler"
        /\ Logged(created[r].ev.correlation_id)
        /\ LoggedAs(created[r].ev.correlation_id).chapter_number = 1
        /\ created[r].ev.scene_index = 2
        /\ created[created[r].ev.correlation_id].ev.correlation_id = 0

\* The place of event i in the log.
LogIndex(i) == CHOOSE k \in DOMAIN event_log : event_log[k].event_id = i

\* The events that passed the middleware chain of a publish call.
Accepted == {i \in Ids : Dispatched(i)}

\* This step is the acceptance of an event by publish: the middleware chain
\* of the publish frame of some client has ended with the event ev.
Accepts(ev) ==
    \E c \in Calls :
        /\ Running(c)
        /\ Top(stack[c]).pc = "middleware"
        /\ Top(stack[c]).mw > Len(middleware)
        /\ Top(stack[c]).ev = ev
        /\ ~Dispatched(ev.event_id)
        /\ Accepted' = Accepted \cup {ev.event_id}

\* C26: the log lists the events in the order publish accepted them: it
\* holds each accepted event once and changes only by the event accepted
\* in that step being put at its end; and a response made from a request
\* is logged after that request, however the publish calls of concurrent
\* requests interleave.
C26_LogInPublishOrder ==
    /\ [](/\ \A i \in Ids : Dispatched(i) <=> Logged(i)
          /\ Len(event_log) = Cardinality(Accepted)
          /\ \A r \in Ids :
                (created[r].by = "handler" /\ Logged(r)) =>
                   /\ Logged(created[r].ev.correlation_id)
                   /\ LogIndex(created[r].ev.correlation_id) < LogIndex(r))
    /\ [][event_log' # event_log =>
             \E ev \in {Top(stack[c]).ev : c \in {d \in Calls : Running(d)}} :
                 Accepts(ev) /\ event_log' = Append(event_log, ev)]_vars

\* Two concurrent requests: the second was accepted between the first and
\* the response to the first.
C26_Witness ==
    /\ Len(event_log) = 3
    /\ \A c \in Calls : IsRequest(c)
    /\ created[event_log[3].event_id].by = "handler"
    /\ event_log[3].correlation_id = event_log[1].event_id
    /\ event_log[2].correlation_id = 0

\* a is a prefix of b.
IsPrefix(a, b) == Len(a) <= Len(b) /\ SubSeq(b, 1, Len(a)) = a

\* The filters get_event_log can be called with.
LogFilters == (EventTypes \cup {"none"}) \X {0, 1}

\* The logged events a filter asks for, in log order.
Matching(event_type, chapter) ==
    LET Asked(e) == /\ event_type = "none" \/ e.event_type = event_type
                    /\ chapter = 0 \/ e.chapter_number = chapter
    IN SelectSeq(event_log, Asked)

\* C27: the log is append-only and complete: through every operation of
\* the bus the log before is a prefix of the log after, every event that
\* publish was called with is in it once publish is past its middleware
\* chain, and get_event_log(type, chapter) is exactly the logged events
\* that match the filters, in log order.
C27_LogAppendOnlyComplete ==
    /\ [][IsPrefix(event_log, event_log')]_vars
    /\ [](\A i \in Ids : disp[i].branch # "unpublished" => Logged(i))
    /\ [](\A f \in LogFilters : get_event_log(f[1], f[2]) = Matching(f[1], f[2]))

\* Event i names a target that has no directed handler.
TargetUnregistered(i) ==
    /\ created[i].ev.target_agent # ""
    /\ lastRegistered[created[i].ev.target_agent] = ""

\* The responses handlers made for event i.
RepliesTo(i) ==
    {r \in Ids : created[r].by = "handler" /\ created[r].ev.correlation_id = i}

\* C31: an event that names a target without a directed handler (and
\* answers no pending request) is broadcast to every subscription of its
\* type; it makes no call end with an error of its handlers; and of the
\* replies the subscribers make to such a request only the first that
\* publish accepts resolves it: every other one finds the future resolved
\* and is passed on to nobody.
C31_UnregisteredTargetBroadcast ==
    /\ \A i \in Ids :
          Dispatched(i) /\ TargetUnregistered(i) /\ ~disp[i].matched
              => DeliveredBroadcast(i)
    /\ \A c \in Calls :
          call[c].op # "none" /\ TargetUnregistered(IdOf(c)) =>
              /\ call[c].pc = "error" => call[c].cause = "middleware"
              /\ IsRequest(c) =>
                    \A r \in RepliesTo(IdOf(c)) : Dispatched(r) =>
                        /\ disp[r].branch \in {"resolved", "stale"}
                        /\ disp[r].branch = "resolved" <=>
                               Answers(IdOf(c))[1].event_id = r
                        /\ disp[r].branch = "resolved" =>
                               future[c].done /\ future[c].result.event_id = r

\* A request to a target without a handler has returned the reply of one
\* subscriber of its type, and the reply of another subscriber resolved
\* nothing.
C31_Witness ==
    \E c \in Calls, r, q \in Ids :
        /\ IsRequest(c) /\ TargetUnregistered(IdOf(c))
        /\ call[c].pc = "returned"
        /\ r \in RepliesTo(IdOf(c)) /\ q \in RepliesTo(IdOf(c))
        /\ call[c].result.event_id = r
        /\ disp[q].branch = "stale"

\* Event r is event i or a response in the chain of responses handlers
\* made from it.
RECURSIVE InChain(_, _)
InChain(r, i) ==
    \/ r = i
    \/ /\ r > i
       /\ created[r].by = "handler"
       /\ InChain(created[r].ev.correlation_id, i)

\* The chain of event i has ended: every event of it has been through
\* publish and every handler started for one of them has ended.
ChainEnded(i) ==
    \A r \in Ids : created[r].by # "none" /\ InChain(r, i) =>
        /\ disp[r].branch # "unpublished"
        /\ \A h \in Handlers, m \in Modes :
              completed[<<r, h, m>>] = delivered[<<r, h, m>>]

\* C32: publish nests without a bound of its own.  The frames of a task
\* are a chain: each frame above the first publishes the response a
\* handler made to the event of the frame below, which is suspended on
\* that publish (line 69 or 84), at any depth; and the publish call of a
\* client returns only when the whole chain of its event has ended.
C32_UnboundedHandlerChain ==
    /\ \A c \in Calls : \A k \in DOMAIN stack[c] :
          /\ k < Len(stack[c]) =>
                /\ stack[c][k].pc \in {"directed_publish", "results"}
                /\ created[stack[c][k + 1].ev.event_id].by = "handler"
                /\ stack[c][k + 1].ev.correlation_id = stack[c][k].ev.event_id
          /\ stack[c][k].pc = "directed_publish" => k < Len(stack[c])
    /\ \A i \in Ids : PublishReturned(i) => ChainEnded(i)

\* Handlers that answer each other's responses: every event the run can
\* construct is a frame of one task, which is still inside publish.
C32_Witness ==
    \E c \in Calls :
        /\ Len(stack[c]) = MaxEvents
        /\ call[c].pc = "publishing"
        /\ \A i \in Ids : \E k \in DOMAIN stack[c] : stack[c][k].ev.event_id = i

\* ---- properties of the chapter pipeline ------------------------------------
Issued(st) == st # "none"

SceneIds == 1..Len(outline)

\* The review loop has ended: it was skipped, or its last check round did
\* not revise, or the revision of round max_revisions has replied.
ReviewEnded ==
    /\ \A q \in CheckKinds : review.checks[q] # "issued"
    /\ review.revision # "issued"
    /\ \/ max_revisions <= 0
       \/ /\ rounds # <<>>
          /\ \/ ~rounds[Len(rounds)].revised
             \/ review.revision = "replied" /\ Len(rounds) = max_revisions

\* C12: the stages of a run are ordered.  A scene request is issued only
\* after the plan has replied; the composition of a scene only after the
\* setting request and every reaction request of that scene have ended; a
\* check only after every composition has replied; a revision only after
\* both checks of its round have replied; the final save only after the
\* review loop has ended.
C12_StagesOrdered ==
    /\ \A s \in 1..MaxScenes :
          LET sc == scenes[s] IN
          /\ (Issued(sc.setting) \/ Issued(sc.compose)
                 \/ \E j \in DOMAIN sc.react : Issued(sc.react[j]))
                => plan = "replied"
          /\ Issued(sc.compose) =>
                /\ sc.setting = "replied"
                /\ \A j \in DOMAIN sc.react : Over(sc.react[j])
    /\ (\E q \in CheckKinds : Issued(review.checks[q])) =>
          \A s \in SceneIds : scenes[s].compose = "replied"
    /\ Issued(review.revision) =>
          \A q \in CheckKinds : review.checks[q] = "replied"
    /\ final # NoDraft => ReviewEnded

\* A run over two scenes with participants has revised once and saved the
\* chapter.
C12_Witness ==
    /\ gen.pc = "returned"
    /\ final # NoDraft
    /\ Len(outline) = 2
    /\ \A s \in SceneIds : outline[s] > 0
    /\ \E r \in DOMAIN rounds : rounds[r].revised

\* A task the run started is still running, or a request it issued is still
\* awaited.
BranchRunning ==
    \/ \E s \in 1..MaxScenes :
          \/ scenes[s].pc \in {"start", "gather", "compose"}
          \/ scenes[s].chars = "running"
          \/ scenes[s].setting = "issued"
    \/ \E q \in CheckKinds : review.checks[q] = "issued"

\* C13: once generate_chapter has returned or raised, no branch it started
\* is still running or can still issue a request.
C13_JoinedBeforeLeaving ==
    gen.pc \in {"returned", "raised"} => ~BranchRunning

\* The participants of a scene whose reaction request ended as st.
Reacted(sc, st) == {j \in DOMAIN sc.react : sc.react[j] = st}

\* C14: reaction requests that fail do not make the reaction stage raise;
\* once the stage and the setting request of the scene have returned, the
\* composition request is issued, and it carries the reactions of exactly
\* the participants whose request did not fail, in participant order.
C14_FailedReactionsOmitted ==
    /\ gen.cause # "reaction"
    /\ \A s \in 1..MaxScenes :
          LET sc == scenes[s]
              k == Len(sc.react)
          IN
          /\ sc.pc = "raised" => sc.setting = "failed" \/ sc.compose = "failed"
          /\ (\A j \in 1..k : Over(sc.react[j])) /\ sc.setting = "replied"
                => Issued(sc.compose)
          /\ Issued(sc.compose) =>
                /\ Len(sc.carried) = k - Cardinality(Reacted(sc, "failed"))
                /\ {sc.carried[i] : i \in DOMAIN sc.carried}
                      = Reacted(sc, "replied")
                /\ \A a, b \in DOMAIN sc.carried :
                      a < b => sc.carried[a] < sc.carried[b]

\* The composition of a scene with two participants was issued with the
\* reaction of the second only, the request of the first having failed.
C14_Witness ==
    \E s \in 1..MaxScenes :
        /\ Len(scenes[s].react) = 2
        /\ scenes[s].react[1] = "failed"
        /\ Issued(scenes[s].compose)
        /\ scenes[s].carried = <<2>>

\* No request of the review stage was ever issued.
NoReview == review = IdleReview /\ rounds = <<>>

\* C15: a plan, composition or revision request that fails makes
\* generate_chapter raise, without a result; no stage that follows the
\* failed one in the pipeline is started, and the final text is not saved.
C15_FatalStages ==
    /\ gen.pc = "raised" => gen.result = NoDraft
    /\ plan = "failed" =>
          /\ gen.pc = "raised" /\ gen.cause = "plan"
          /\ \A s \in 1..MaxScenes : scenes[s] = IdleScene
          /\ NoReview
          /\ final = NoDraft
    /\ \A s \in 1..MaxScenes : scenes[s].compose = "failed" =>
          /\ gen.pc = "raised" /\ gen.cause \in {"compose", "setting"}
          /\ NoReview
          /\ final = NoDraft
    /\ review.revision = "failed" =>
          /\ gen.pc = "raised" /\ gen.cause = "revision"
          /\ Len(rounds) = review.round
          /\ \A q \in CheckKinds : review.checks[q] = "replied"
          /\ final = NoDraft

\* The composition of one scene has failed after the other scene had
\* returned its text, and generate_chapter has raised for it.
C15_Witness ==
    \E s, t \in 1..MaxScenes :
        /\ scenes[s].compose = "failed"
        /\ scenes[t].pc = "done"
        /\ gen.pc = "raised" /\ gen.cause = "compose"

\* The check rounds that issued a revision request.
Revised == {r \in DOMAIN rounds : rounds[r].revised}

\* The review loop has returned its draft to generate_chapter.
ReviewReturned == gen.pc \in {"finalize", "returned"} /\ rounds # <<>>

\* C16: a check round issues a revision request exactly when its merged
\* issue count is above 2; a round with 0, 1 or 2 issues is the last round
\* and leaves the working draft as it was, so the draft the loop returns is
\* the reply to the last revision, or the assembled draft if there was none.
C16_RevisionThreshold ==
    /\ \A r \in DOMAIN rounds :
          /\ rounds[r].revised <=> rounds[r].issues > 2
          /\ r < Len(rounds) => rounds[r].revised
    /\ Issued(review.revision) => rounds[Len(rounds)].revised
    /\ ReviewReturned =>
          /\ gen.draft.rev = Cardinality(Revised)
          /\ (rounds[1].issues = 3 /\ Len(rounds) > 1 /\ rounds[2].issues = 0)
                => Len(rounds) = 2 /\ Cardinality(Revised) = 1

\* Three issues in round 1 and none in round 2: the loop has returned the
\* reply to its one revision.
C16_Witness ==
    /\ ReviewReturned
    /\ Len(rounds) = 2
    /\ rounds[1].issues = 3 /\ rounds[2].issues = 0
    /\ gen.draft.rev = 1

\* C17: the review loop runs at most max_revision_rounds check rounds and
\* issues at most as many revision requests; with the reply to the revision
\* of round max_revision_rounds it returns that reply, which no check sees.
C17_ReviewBounded ==
    /\ Len(rounds) <= max_revisions
    /\ Cardinality(Revised) <= max_revisions
    /\ review.round <= max_revisions
    /\ (/\ rounds # <<>>
        /\ \A r \in DOMAIN rounds : rounds[r].issues > 2
        /\ Len(rounds) = max_revisions
        /\ review.revision = "replied")
          => /\ gen.pc \in {"finalize", "returned", "raised"}
             /\ gen.pc = "raised" => gen.cause = "finalize"
             /\ gen.draft.rev = max_revisions
             /\ review.round = max_revisions
             /\ \A q \in CheckKinds : review.checks[q] = "replied"

\* With max_revision_rounds = 2 both rounds found more than 2 issues, and
\* generate_chapter has returned the reply to the second revision.
C17_Witness ==
    /\ max_revisions = 2
    /\ Len(rounds) = 2
    /\ \A r \in DOMAIN rounds : rounds[r].issues > 2
    /\ gen.pc = "returned"
    /\ gen.result.rev = 2

\* C18: the assembled draft is the chapter header followed by the texts of
\* the scenes in outline order, in whatever order the scenes completed.
C18_AssembledInOutlineOrder ==
    gen.draft # NoDraft =>
        /\ gen.draft.header = "header"
        /\ Len(gen.draft.body) = Len(outline)
        /\ \A i \in SceneIds :
              gen.draft.body[i] = i /\ scenes[i].text = i

\* The second scene completed before the first and the draft is assembled.
C18_Witness ==
    /\ done_order = <<2, 1>>
    /\ gen.draft # NoDraft
    /\ gen.draft.body = <<1, 2>>

\* The number of requests of a kind that were issued for the scenes.
RECURSIVE SentForScenes(_, _)
SentForScenes(kind, s) ==
    IF s = 0 THEN 0 ELSE sent[Request(kind, s, 0)] + SentForScenes(kind, s - 1)

RevisedRounds == {r \in DOMAIN rounds : rounds[r].revised}

\* C22: a run issues the plan request once; for each scene of the outline
\* one setting request, one reaction request per participant entry and at
\* most one composition request, each exactly once on a run that returns;
\* no request is issued a second time, whatever its outcome; the checks are
\* issued once per round and one revision per round that revises.  A run
\* that returns over n scenes without a review issue has issued one plan
\* request, n composition requests and no revision request.
C22_RequestsIssuedOnce ==
    /\ sent[Request("plan", 0, 0)] = IF gen.pc = "idle" THEN 0 ELSE 1
    /\ \A s \in 1..MaxScenes :
          LET sc == scenes[s] IN
          /\ sent[Request("setting", s, 0)]
                = IF Issued(sc.setting) THEN 1 ELSE 0
          /\ sent[Request("compose", s, 0)]
                = IF Issued(sc.compose) THEN 1 ELSE 0
          /\ \A j \in 1..MaxParticipants :
                sent[Request("reaction", s, j)]
                   = IF j \in DOMAIN sc.react /\ Issued(sc.react[j])
                     THEN 1 ELSE 0
          /\ sc.pc \notin {"none", "start"} =>
                sent[Request("setting", s, 0)] = 1
          /\ s > Len(outline) =>
                sent[Request("setting", s, 0)] = 0 /\ Len(sc.react) = 0
          /\ s <= Len(outline) /\ gen.pc = "returned" =>
                /\ sent[Request("compose", s, 0)] = 1
                /\ Len(sc.react) = outline[s]
                /\ \A j \in 1..outline[s] :
                      sent[Request("reaction", s, j)] = 1
    /\ \A q \in CheckKinds : sent[Request(q, 0, 0)] = review.round
    /\ sent[Request("revision", 0, 0)] = Cardinality(RevisedRounds)
    /\ (gen.pc = "returned" /\ \A r \in DOMAIN rounds : rounds[r].issues = 0)
          => /\ sent[Request("plan", 0, 0)] = 1
             /\ SentForScenes("compose", MaxScenes) = Len(outline)
             /\ sent[Request("revision", 0, 0)] = 0

\* A run over two scenes of one participant each, reviewed without an
\* issue, has returned.
C22_Witness ==
    /\ gen.pc = "returned"
    /\ outline = <<1, 1>>
    /\ rounds # <<>>
    /\ \A r \in DOMAIN rounds : rounds[r].issues = 0
    /\ sent[Request("plan", 0, 0)] = 1
    /\ SentForScenes("compose", MaxScenes) = 2
    /\ SentForScenes("setting", MaxScenes) = 2
    /\ sent[Request("revision", 0, 0)] = 0

\* The stages whose save_intermediate failed.
Lost == intermediate \ stored

RequestCauses == {"plan", "setting", "reaction", "compose", "check",
                  "revision"}

\* The text a run over the outline returns: the scenes in outline order, as
\* revised by the last round that revised.
ExpectedDraft ==
    Draft([i \in 1..Len(outline) |-> i], Cardinality(RevisedRounds))

\* C23: a failed save of an intermediate stage is swallowed.  The run never
\* ends with its exception; after a failed save of the outline the scene
\* tasks are created, after a failed save of a scene draft the chapter is
\* assembled and its review starts, after a failed save of the issues of a
\* round the revision of that round is requested; and a run that returns,
\* returns the text it returns without a failed save.
C23_IntermediateSaveSwallowed ==
    /\ gen.pc = "raised" => gen.cause \in RequestCauses \cup {"finalize"}
    /\ Stage("outline", 0) \in Lost =>
          /\ plan = "replied"
          /\ \A s \in SceneIds : scenes[s].pc # "none"
          /\ Len(outline) = 0 /\ max_revisions > 0 =>
                \A q \in CheckKinds : sent[Request(q, 0, 0)] >= 1
    /\ \A i \in 1..MaxScenes : Stage("scene_draft", i) \in Lost =>
          /\ gen.draft.body = ExpectedDraft.body
          /\ max_revisions > 0 =>
                \A q \in CheckKinds : sent[Request(q, 0, 0)] >= 1
          /\ max_revisions <= 0 => gen.pc \in {"finalize", "returned", "raised"}
    /\ \A r \in 1..MaxRounds : Stage("review_round", r) \in Lost =>
          sent[Request("revision", 0, 0)] >= r
    /\ gen.pc = "returned" => gen.result = ExpectedDraft

\* A run over two scenes has returned its revised text although the save
\* of the issues of its first review round failed.
C23_Witness ==
    /\ gen.pc = "returned"
    /\ Len(outline) = 2
    /\ Stage("review_round", 1) \in Lost
    /\ gen.result = Draft(<<1, 2>>, 1)

\* The memories as they were before the run.
MemoryUntouched == memory \in {Memory(m, {}) : m \in Summaries}

\* The summaries stored by this run.
OwnSummaries ==
    {i \in DOMAIN memory.chapter_summaries.items :
        memory.chapter_summaries.items[i] # EarlierSummary}

\* C25: save_chapter is called once on a run that reaches the finalize
\* stage and not at all on a run that failed before; the memories are
\* written only after the save has succeeded, so that a run whose save
\* fails raises with the memories as they were; a run that returns has
\* appended one summary, that of the text it returns, to chapter_summaries
\* and noted every participant entry of the outline.
C25_SaveThenMemory ==
    /\ save_calls = IF gen.pc = "returned"
                       \/ (gen.pc = "raised" /\ gen.cause = "finalize")
                    THEN 1 ELSE 0
    /\ (gen.pc = "raised" /\ gen.cause \in RequestCauses) =>
          final = NoDraft /\ MemoryUntouched
    /\ ~MemoryUntouched => final # NoDraft /\ save_calls = 1
    /\ (gen.pc = "raised" /\ gen.cause = "finalize" /\ final = NoDraft) =>
          MemoryUntouched
    /\ gen.pc = "returned" =>
          /\ final = gen.result
          /\ Cardinality(OwnSummaries) = 1
          /\ LET items == memory.chapter_summaries.items IN
             /\ items[Len(items)] = Summary(gen.result)
             /\ \A i \in 1..(Len(items) - 1) : items[i] = EarlierSummary
          /\ memory.notes = Participants(outline)

\* A run over two scenes with participants has returned and appended its
\* summary to that of an earlier chapter.
C25_Witness ==
    /\ gen.pc = "returned"
    /\ Len(outline) = 2
    /\ memory.chapter_summaries = List(<<EarlierSummary, Summary(gen.result)>>)
    /\ memory.notes # {}
    /\ save_calls = 1

\* The positions 1..k of the participants of a scene, in their order.
Places(k) == [j \in 1..k |-> j]

\* C34: without parallel_characters at most one reaction request of a scene
\* is in flight, and a request is issued only when those of all earlier
\* participants have ended; and in either mode the reactions handed to the
\* composition are those of the participants whose request replied, in
\* participant order: a function of the outcomes alone, so that the two
\* modes give the same list for the same outcomes.
C34_SequentialEqualsParallel ==
    \A s \in 1..MaxScenes :
        LET sc == scenes[s]
            k == Len(sc.react)
            Replied(j) == sc.react[j] = "replied"
        IN
        /\ ~parallel =>
              /\ Cardinality(Reacted(sc, "issued")) <= 1
              /\ \A j \in 1..k : sc.react[j] # "none" =>
                    \A i \in 1..(j - 1) : Over(sc.react[i])
              /\ \A j \in 1..k : sent[Request("reaction", s, j)] =
                    IF sc.react[j] # "none" THEN 1 ELSE 0
        /\ Issued(sc.compose) => sc.carried = SelectSeq(Places(k), Replied)

\* In sequential mode the request of the first participant of a scene has
\* failed, that of the second has replied after it, and the composition
\* holds the reaction of the second.
C34_Witness ==
    /\ ~parallel
    /\ \E s \in 1..MaxScenes :
          /\ scenes[s].react = <<"failed", "replied">>
          /\ scenes[s].carried = <<2>>
          /\ Issued(scenes[s].compose)

\* C36: a setting request or a check request that fails is fatal:
\* generate_chapter raises, the chapter is not saved (save_chapter is never
\* called and the memories are not updated), the composition request of a
\* scene whose setting request failed is never issued, and no revision is
\* requested in a round one of whose checks failed.
C36_SettingAndCheckFatal ==
    /\ \A s \in 1..MaxScenes : scenes[s].setting = "failed" =>
          /\ gen.pc = "raised"
          /\ gen.cause \in {"setting", "compose"}
          /\ gen.result = NoDraft
          /\ final = NoDraft /\ save_calls = 0 /\ MemoryUntouched
          /\ scenes[s].compose = "none"
          /\ sent[Request("compose", s, 0)] = 0
          /\ NoReview
    /\ \A q \in CheckKinds : review.checks[q] = "failed" =>
          /\ gen.pc = "raised" /\ gen.cause = "check"
          /\ gen.result = NoDraft
          /\ final = NoDraft /\ save_calls = 0 /\ MemoryUntouched
          /\ review.revision = "none"
          /\ Len(rounds) = review.round - 1

\* The setting request of a scene has failed after both its reaction
\* requests had replied, while the other scene of the outline was composed.
C36_Witness ==
    \E s, t \in SceneIds :
        /\ scenes[s].setting = "failed"
        /\ scenes[s].react = <<"replied", "replied">>
        /\ scenes[s].chars = "done"
        /\ scenes[t].compose = "replied"
        /\ gen.pc = "raised" /\ gen.cause = "setting"

\* The draft as assembled from the scene texts (lines 122-123), which no
\* revision has touched.
AssembledDraft == Draft([i \in 1..Len(outline) |-> i], 0)

\* C33: with max_revision_rounds <= 0 no consistency, quality or revision
\* request is ever issued and no round is run; the draft the review stage
\* returns is the assembled draft, and it is the text Finalize saves and
\* generate_chapter returns.
C33_NoReviewRounds ==
    max_revisions <= 0 =>
        /\ \A q \in CheckKinds : sent[Request(q, 0, 0)] = 0
        /\ sent[Request("revision", 0, 0)] = 0
        /\ NoReview
        /\ gen.pc \in {"finalize", "returned"} => gen.draft = AssembledDraft
        /\ gen.pc = "raised" /\ gen.cause = "finalize" =>
              gen.draft = AssembledDraft
        /\ final # NoDraft => final = AssembledDraft
        /\ gen.pc = "returned" =>
              final = AssembledDraft /\ gen.result = AssembledDraft

\* A run without review rounds over two scenes has saved and returned.
C33_Witness ==
    /\ max_revisions = 0
    /\ Len(outline) = 2
    /\ gen.pc = "returned"
    /\ final = AssembledDraft
    /\ save_calls = 1

\* ---- properties of the visual pipeline --------------------------------------
\* C24: a failure of save_intermediate in VisualPipeline.run, after the
\* extraction or after the expansion, is swallowed: run does not end with
\* its exception.
C24_VisualSaveSwallowed ==
    ~(run.pc = "raised" /\ run.cause = "save_intermediate")

\* C35: in both modes a run that returns, returns a manifest whose
\* visual_results has one entry per expanded scene, in scene order, each a
\* result or an error entry that carries the index of its scene; a scene
\* whose generation raised has not kept any other scene from being
\* generated and has not made run raise.
C35_OneEntryPerScene ==
    /\ run.pc = "raised" =>
          run.cause \in {"initialize", "extract", "expand",
                         "save_intermediate", "save_manifest"}
    /\ manifest.state # "none" =>
          /\ Len(manifest.visual_results) = expanded_scenes
          /\ \A i \in DOMAIN manifest.visual_results :
                /\ manifest.visual_results[i].st \in {"result", "error"}
                /\ manifest.visual_results[i].scene_index = i - 1
                /\ visual_results[i].st \notin {"none", "issued"}
    /\ run.pc = "returned" => manifest.state = "saved"

\* ---- properties of the name resolution -------------------------------------
\* The places in the registry of the names contained in n, and of the
\* names that contain n.
ContainedIn(n) == {i \in DOMAIN characters : IsSubstring(characters[i], n)}

Containing(n) == {i \in DOMAIN characters : IsSubstring(n, characters[i])}

\* What the four rules give for n, tried in their order; <<>> is none.
ByRules(n) ==
    CASE IsRegistered(n) -> n
      [] ~IsRegistered(n) /\ ContainedIn(n) # {} ->
            characters[Min(ContainedIn(n))]
      [] ~IsRegistered(n) /\ ContainedIn(n) = {} /\ Containing(n) # {} ->
            characters[Min(Containing(n))]
      [] OTHER ->
            IF IsRegistered(strip(BeforeParen(n)))
            THEN strip(BeforeParen(n)) ELSE <<>>

\* C19: _resolve_character_name returns what the first matching rule gives:
\* the name itself if registered; else the first registered name contained
\* in it; else the first registered name containing it; else the name cut
\* at its first "(" and trimmed, if registered; else none.
C19_ResolutionRules ==
    resolution.pc = "done" =>
        /\ \A i \in DOMAIN plot_plan.characters_present :
              resolution.present[i] = ByRules(plot_plan.characters_present[i])
        /\ plot_plan.pov_character # <<>> =>
              resolution.pov = ByRules(plot_plan.pov_character)

\* An unregistered name that contains both registered names has resolved
\* to the one registered first, which stands second in the name.
C19_Witness ==
    /\ resolution.pc = "done"
    /\ \E i \in DOMAIN plot_plan.characters_present :
          LET n == plot_plan.characters_present[i] IN
          /\ ~IsRegistered(n)
          /\ Cardinality(ContainedIn(n)) = 2
          /\ n[1] = characters[2][1]
          /\ resolution.present[i] = characters[1]

\* n is one word, longer than the name r it contains.
LongerWord(r, n) ==
    /\ \A k \in DOMAIN n : n[k] \in Letters
    /\ IsSubstring(r, n)
    /\ Len(n) > Len(r)

\* C20: a name of the plot agent that is a longer word containing a
\* registered name does not resolve to that name.
C20_FailsClosed ==
    resolution.pc = "done" =>
        \A i \in DOMAIN plot_plan.characters_present :
            \A k \in DOMAIN characters :
                LongerWord(characters[k], plot_plan.characters_present[i])
                    => resolution.present[i] # characters[k]

\* The k-th least element of a set of indices.
Nth(S, k) == CHOOSE i \in S : Cardinality({m \in S : m <= i}) = k

\* C21: after name resolution every entry of characters_present is a
\* registered name; the entries are the resolutions of the names that
\* resolve, in the order of those names, and the names that do not resolve
\* are left out; the resolution ends without an exception.  The reaction
\* requests of the scene are addressed to registered names only, and with no
\* resolved participant the reaction stage returns, so that the scene goes
\* on to its composition.
C21_ResolvedParticipants ==
    /\ resolution.pc \in {"start", "done", "returned", "awaiting"}
    /\ resolution.pc # "start" =>
          LET plot == plot_plan.characters_present
              present == scene_plan.characters_present
              idx == {i \in DOMAIN plot : ByRules(plot[i]) # <<>>}
          IN
          /\ \A k \in DOMAIN present : IsRegistered(present[k])
          /\ Len(present) = Cardinality(idx)
          /\ \A k \in DOMAIN present : present[k] = ByRules(plot[Nth(idx, k)])
    /\ resolution.pc \in {"returned", "awaiting"} =>
          /\ \A k \in DOMAIN resolution.targets :
                IsRegistered(resolution.targets[k])
          /\ resolution.targets = scene_plan.characters_present
          /\ scene_plan.characters_present = <<>>
                => resolution.pc = "returned"

\* A scene plan of two names of which the first does not resolve and the
\* second does: one reaction request, addressed to the second's agent.
C21_Witness ==
    /\ resolution.pc = "awaiting"
    /\ Len(plot_plan.characters_present) = 2
    /\ ByRules(plot_plan.characters_present[1]) = <<>>
    /\ plot_plan.characters_present[1] # <<>>
    /\ Len(scene_plan.characters_present) = 1
    /\ resolution.targets = <<ByRules(plot_plan.characters_present[2])>>

\* ---- properties of the rate limiter ---------------------------------------
\* The calls of acquire that return, and that raise, in this step.
Returning == {t \in Acquirers : acquiring[t].pc # "returned"
                                 /\ acquiring'[t].pc = "returned"}

Raising == {t \in Acquirers : acquiring[t].pc # "raised"
                               /\ acquiring'[t].pc = "raised"}

\* A call of acquire is under way.
InAcquire(t) == acquiring[t].pc \in {"loop", "locked", "sleeping"}

\* C28: a call of acquire(token_count) returns in a step that takes exactly
\* one request token, and token_count TPM tokens when a TPM limit is set,
\* from buckets that held them after the refill; no other step takes
\* anything from a bucket, so a call that raises has taken nothing; a call
\* raises TimeoutError only once more than acquire_timeout has elapsed
\* since it started; the buckets are never overdrawn; and every call ends:
\* one that finds no capacity within acquire_timeout raises.
C28_AcquireConsumes ==
    /\ [][/\ \A t \in Returning :
               LET filled == refill(limiter, monotonic)
                   n == acquiring[t].token_count
               IN /\ filled.request_tokens >= OneToken
                  /\ limiter'.request_tokens = filled.request_tokens - OneToken
                  /\ limiter.tpm # 0 =>
                        /\ filled.token_tokens >= n * OneToken
                        /\ limiter'.token_tokens =
                               filled.token_tokens - n * OneToken
                  /\ limiter.tpm = 0 => limiter'.token_tokens = 0
          /\ Returning = {} =>
                /\ limiter'.request_tokens >= limiter.request_tokens
                /\ limiter'.token_tokens >= limiter.token_tokens
          /\ \A t \in Raising :
                /\ monotonic - acquiring[t].start > limiter.acquire_timeout
                /\ limiter' = limiter]_vars
    /\ [](limiter.request_tokens >= 0 /\ limiter.token_tokens >= 0)
    /\ \A t \in Acquirers :
           InAcquire(t) ~> acquiring[t].pc \in {"returned", "raised"}

\* One call has returned with its TPM tokens taken, which left less than
\* the other call asked for, and the other call has raised.
C28_Witness ==
    \E t, u \in Acquirers :
        /\ limiter.tpm # 0
        /\ acquiring[t].pc = "returned"
        /\ acquiring[t].token_count > 0
        /\ acquiring[u].pc = "raised"
        /\ acquiring[u].token_count > 0
        /\ acquiring[u].token_count <= limiter.tpm
        /\ acquiring[u].start >= acquiring[t].start

\* ---- properties of the emotional state machine ----------------------------
\* C29: for every character type and every event_severity of 1..10,
\* compute_intensity_change returns an integer of -5..5, above 0 for a
\* positive event and below 0 for a negative one.
C29_IntensitySign ==
    answer.op = "compute_intensity_change" =>
        /\ answer.change \in -5..5
        /\ answer.is_positive => answer.change > 0
        /\ ~answer.is_positive => answer.change < 0

\* The last k elements of seq, oldest first.
LastOf(seq, k) == [i \in 1..k |-> seq[Len(seq) - k + i]]

\* C30: get_recent_transitions(count) returns the min(count, n) most
\* recently recorded of the n transitions of the history, oldest first, for
\* every count >= 0, and leaves the history as it is.
C30_RecentTransitions ==
    [][answer'.op = "get_recent_transitions" /\ answer' # answer =>
          /\ answer'.transitions =
                 LastOf(transition_history,
                        Min({answer'.count, Len(transition_history)}))
          /\ transition_history' = transition_history]_vars


\* ---- properties of the events of a run -------------------------------------
\* The request of the run a logged event belongs to: the one published
\* with its id, or with the id it answers.
RequestOf(e) ==
    CHOOSE i \in RunRequests :
        Published(i) /\ requested[i] \in {e.event_id, e.correlation_id}

\* get_event_log(event_type, chapter) returns event e.
Returned(e, event_type, chapter) ==
    \E k \in 1..Len(get_event_log(event_type, chapter)) :
        get_event_log(event_type, chapter)[k] = e

\* C37: the plan, setting, reaction and composition requests of
\* generate_chapter(N) and their replies carry chapter_number N, the
\* check and revision requests and their replies carry none; so
\* get_event_log(chapter=N), with or without a type, returns the former
\* and never a review event of the run.
C37_ReviewEventsUnnumbered ==
    \A k \in 1..Len(event_log) :
        LET e == event_log[k]
        IN IF RequestOf(e)[1] \in ReviewKinds
           THEN /\ e.chapter_number = 0
                /\ \A ty \in {"none", e.event_type} :
                      ~Returned(e, ty, chapter_number)
           ELSE /\ e.chapter_number = chapter_number
                /\ \A ty \in {"none", e.event_type} :
                      Returned(e, ty, chapter_number)

\* The revision of chapter 2 was answered; the log of the chapter holds
\* the requests of the scene and their replies, and no more.
C37_Witness ==
    /\ chapter_number = 2
    /\ Answered(Request("revision", 0, 0))
    /\ \A q \in CheckKinds : Answered(Request(q, 0, 0))
    /\ Len(event_log) = 2 * Cardinality(RunRequests)
    /\ Len(get_event_log("none", 2)) = Len(event_log) - 6

\* What rules 1 to 3 give for n, tried in their order; <<>> is none.
ByThreeRules(n) ==
    IF IsRegistered(n) THEN n
    ELSE IF ContainedIn(n) # {} THEN characters[Min(ContainedIn(n))]
    ELSE IF Containing(n) # {} THEN characters[Min(Containing(n))]
    ELSE <<>>

\* The names of the scene plan the plot agent sent.
PlanNames ==
    {plot_plan.characters_present[i] : i \in DOMAIN plot_plan.characters_present}
    \cup {plot_plan.pov_character}

\* C38: the fourth rule never decides: for every registry and every name,
\* _resolve_character_name returns what a resolver with rules 1 to 3
\* alone returns, and so does the resolution of a scene plan.
C38_FourthRuleNeverDecides ==
    /\ \A n \in PlanNames : resolve_character_name(n) = ByThreeRules(n)
    /\ resolution.pc = "done" =>
        /\ \A i \in DOMAIN plot_plan.characters_present :
              resolution.present[i] =
                  ByThreeRules(plot_plan.characters_present[i])
        /\ plot_plan.pov_character # <<>> =>
              resolution.pov = ByThreeRules(plot_plan.pov_character)

\* A name with a parenthetical suffix whose stripped form is registered,
\* and is not the name, has resolved to it.
C38_Witness ==
    /\ resolution.pc = "done"
    /\ \E i \in DOMAIN plot_plan.characters_present :
          LET n == plot_plan.characters_present[i] IN
          /\ \E k \in DOMAIN n : n[k] = "("
          /\ strip(BeforeParen(n)) # <<>>
          /\ BeforeParen(n) # strip(BeforeParen(n))
          /\ IsRegistered(strip(BeforeParen(n)))
          /\ resolution.present[i] = strip(BeforeParen(n))

\* C39: the two buckets stay within 0 and their capacity, and no token is
\* spent twice: the calls of acquire that returned are no more than the
\* initial capacity plus what has been refilled since (each bucket holds
\* what it started with and was refilled, less what the calls took), and
\* no more is refilled than the rate allows for the time elapsed.
C39_BucketsBounded ==
    /\ limiter.request_tokens \in 0..(limiter.rpm * OneToken)
    /\ limiter.token_tokens \in 0..(limiter.tpm * OneToken)
    /\ ledger.acquired * OneToken <=
           limiter.rpm * OneToken + ledger.refilled_requests
    /\ ledger.acquired * OneToken + limiter.request_tokens =
           limiter.rpm * OneToken + ledger.refilled_requests
    /\ ledger.taken + limiter.token_tokens =
           limiter.tpm * OneToken + ledger.refilled_tokens
    /\ ledger.refilled_requests <= monotonic * limiter.rpm
    /\ ledger.refilled_tokens <= monotonic * limiter.tpm

\* Two tasks are past the lock at once, more calls have returned than the
\* bucket held at first, and TPM tokens were taken and refilled.
C39_Witness ==
    /\ ledger.acquired > limiter.rpm
    /\ ledger.taken > 0
    /\ ledger.refilled_tokens > 0
    /\ \E t, u \in Acquirers :
          /\ t # u
          /\ acquiring[t].pc = "returned"
          /\ acquiring[u].pc \in {"locked", "sleeping"}

\* ---- properties of the pipeline tracker --------------------------------------
Finished(result) == result.status \in {"completed", "failed"}

\* Every recorded stage is running, completed or failed, has a start time,
\* and has a completion time, and so a duration, exactly when it is
\* completed or failed.
StagesWellFormed ==
    \A k \in 1..Len(stages) :
        /\ stages[k].status \in {"running", "completed", "failed"}
        /\ stages[k].started_at # 0
        /\ stages[k].completed_at # 0 <=> Finished(stages[k])
        /\ duration_seconds(stages[k]) # -1 <=> Finished(stages[k])

\* C40: every stage of the tracker is RUNNING with a start time from
\* start_stage on, has a completion time and a duration exactly when it is
\* COMPLETED or FAILED, and once COMPLETED or FAILED is changed by no
\* later call of complete_stage or fail_stage.
C40_StageLifecycle ==
    /\ []StagesWellFormed
    /\ [][\A k \in 1..Len(stages) :
             Finished(stages[k]) => stages'[k] = stages[k]]_vars
====
